---- MODULE Spec2Model ----
(***************************************************************************)
(* Post-processing pipeline of react-yolo-hooks: the geometry mapper, the  *)
(* candidate decoder, non-maximum suppression and the three result         *)
(* assemblers of src/src/utils/image.ts (lines 589-1008), together with    *)
(* scaleCoordinates (lines 148-164).                                       *)
(*                                                                         *)
(* Number representation.  The code computes in IEEE doubles; the model    *)
(* computes in exact rational arithmetic over integers:                    *)
(*   - tensor box channels (cx, cy, w, h) are integers in model pixels;    *)
(*   - scores and confidenceThreshold are integers in tenths (9 is 0.9);   *)
(*   - image-space coordinates returned by convertToImageCoordinates are   *)
(*     numerators over xDen(pid) on the x axis and yDen(pid) on the y      *)
(*     axis, where xDen = 2 * 640 / gcd(originalWidth, 640), because       *)
(*       (cx - w/2) * (originalWidth / 640)                                *)
(*         = (2*cx - w) * (originalWidth / g) / (2 * 640 / g);             *)
(*   - a quotient (an IoU, iouThreshold, a scale factor) is a record       *)
(*     [num, den] with den > 0, compared by cross-multiplication.          *)
(* Array indices are 0-based as in the code; a JavaScript array is a TLA+  *)
(* sequence read through At(seq, i) = seq[i + 1].                          *)
(***************************************************************************)
EXTENDS Integers, Sequences, FiniteSets, TLC

VARIABLES
    op,                  \* the operation that has just returned ("init": none)
    args,                \* arguments of a leaf-function call
    ret,                 \* value returned by a leaf-function call
    output,              \* the output tensor handed to an assembler
    processedImageData,  \* the geometry context handed to an assembler
    options,             \* PostProcessOptions handed to an assembler
    boxes,               \* local: candidate boxes pushed by the decode loop
    scores,              \* local: candidate scores, index-aligned with boxes
    classIds,            \* local: candidate class ids, index-aligned with boxes
    anchors,             \* history: the anchor index i that pushed each candidate
    selectedIndices,     \* local: the indices returned by nms
    results,             \* the sequence returned by the assembler
    thrown,              \* the errors the call raised (None: it returned)
    \* utils/inference.ts
    sessionMutexMap,     \* per session: the InferenceMutex (isLocked, queue) if any
    callPc,              \* per runInference call: where it stands
    callSession,         \* per runInference call: the session it was given
    acquired,            \* per runInference call: its acquire() promise is resolved
    requests,            \* history, per session: the calls inside runInference, in call order
    handedTo,            \* history: the calls release() resolved that have not resumed yet
    \* hooks/index.ts, useYolo
    state,               \* the YoloState of useState
    inferenceSessionRef, \* inferenceSessionRef.current (NoSession: null)
    mountedRef,          \* mountedRef.current
    hookPhase,           \* "constructed", "mounted" (effects have run), "unmounted"
    loadPc,              \* per initializeModel call: where it stands
    disposedSessions,    \* the sessions handed to disposeSession
    lastCall,            \* history: the last of initializeModel / reset to start
    \* hooks/index.ts, useYolo.predict
    config,              \* the YoloConfig of the render: maxFPS, skipFrames
    now,                 \* performance.now(), in milliseconds
    predictionInProgressRef, \* predictionInProgressRef.current
    lastPredictionTimeRef,   \* lastPredictionTimeRef.current
    frameCountRef,       \* frameCountRef.current
    predictPc,           \* per predict call: "idle" or awaiting "runInference"
    lastExit,            \* the predict call that just left predict: its exit
    lastAccepted,        \* history: the last call past the skips: its currentTime,
                         \* and whether reset() was called since
    lastInference,       \* history: the same for the last call to run inference
    \* types/index.ts, useYoloContinuous
    processingRef,       \* processingRef.current
    animationFrameRef,   \* animationFrameRef.current (NoFrame: undefined)
    videoRef,            \* videoRef.current is set
    lastProcessTimeRef,  \* lastProcessTimeRef.current
    animationFrames,     \* the browser: the handles of the requested frames
    lastHandle,          \* the browser: the last handle requestAnimationFrame gave
    startThrown,         \* the error the last startProcessing call raised
    lastSubmit           \* history: the last two frames handed to predict

pipelineVars == <<op, args, ret, output, processedImageData, options, boxes,
                  scores, classIds, anchors, selectedIndices, results, thrown>>
inferenceVars == <<sessionMutexMap, callPc, callSession, acquired, requests,
                   handedTo>>
hookVars == <<state, inferenceSessionRef, mountedRef, hookPhase, loadPc,
              disposedSessions, lastCall>>
predictVars == <<config, now, predictionInProgressRef, lastPredictionTimeRef,
                 frameCountRef, predictPc, lastExit, lastAccepted, lastInference>>
continuousVars == <<processingRef, animationFrameRef, videoRef,
                    lastProcessTimeRef, animationFrames, lastHandle,
                    startThrown, lastSubmit>>
vars == <<pipelineVars, inferenceVars, hookVars, predictVars, continuousVars>>

(***************************************************************************)
(* Program constants.                                                      *)
(***************************************************************************)
MODEL_WIDTH == 640
MODEL_HEIGHT == 640
MinBoxSize == 20

(***************************************************************************)
(* Bounds of the model.  The code fixes 8400 anchors, 80 classes, 32 mask  *)
(* coefficients and 17 keypoints; the model keeps the same channel-major   *)
(* layout with fewer of each.                                              *)
(***************************************************************************)
NUM_DETECTIONS == 2
NUM_CLASSES == 2
NumMaskCoeffs == 1
NumKeypoints == 2
MaxBoxes == 3
MaxCoord == 2
\* concurrent runInference calls, inference sessions, initializeModel calls
NumCalls == 3
NumSessions == 2
MaxLoads == 2
\* concurrent predict calls, the last clock reading, the frames counted
NumPredicts == 2
MaxTime == 4
MaxFrames == 2
MaxHandles == 5

Max(a, b) == IF a >= b THEN a ELSE b
Min(a, b) == IF a <= b THEN a ELSE b
At(seq, i) == seq[i + 1]
Quot(n, d) == [num |-> n, den |-> d]
\* q > t and q <= t for quotients with positive denominators
QGt(q, t) == q.num * t.den > t.num * q.den
QLe(q, t) == ~QGt(q, t)

RECURSIVE Gcd(_, _)
Gcd(a, b) == IF b = 0 THEN a ELSE Gcd(b, a % b)
\* xRatio = originalWidth / 640 and yRatio = originalHeight / 640 in lowest
\* terms, and the denominators of the image-space coordinates
xRatio(pid) == Quot(pid.originalWidth \div Gcd(pid.originalWidth, MODEL_WIDTH),
                    MODEL_WIDTH \div Gcd(pid.originalWidth, MODEL_WIDTH))
yRatio(pid) == Quot(pid.originalHeight \div Gcd(pid.originalHeight, MODEL_HEIGHT),
                    MODEL_HEIGHT \div Gcd(pid.originalHeight, MODEL_HEIGHT))
xDen(pid) == 2 * xRatio(pid).den
yDen(pid) == 2 * yRatio(pid).den

\* mutant: the padding is not removed before scaling back
scaleCoordinates_noPad(x, y, width, height, pid) ==
    LET originalX == Max(0, x * pid.scaleX.den)
        originalY == Max(0, y * pid.scaleY.den)
        originalWidth_ == Min(pid.originalWidth * pid.scaleX.num - originalX,
                              width * pid.scaleX.den)
        originalHeight_ == Min(pid.originalHeight * pid.scaleY.num - originalY,
                               height * pid.scaleY.den)
    IN  <<originalX, originalY, originalWidth_, originalHeight_>>

(***************************************************************************)
(* scaleCoordinates (image.ts 148-164).  scaleX, scaleY are quotients; the *)
(* result is <<x, y, width, height>> with x and width as numerators over   *)
(* scaleX.num and y and height as numerators over scaleY.num:              *)
(*   (x - padX) / (n/d) = (x - padX) * d / n.                              *)
(***************************************************************************)
scaleCoordinates(x, y, width, height, pid) ==
    LET originalX == Max(0, (x - pid.padX) * pid.scaleX.den)
        originalY == Max(0, (y - pid.padY) * pid.scaleY.den)
        originalWidth_ == Min(pid.originalWidth * pid.scaleX.num - originalX,
                              width * pid.scaleX.den)
        originalHeight_ == Min(pid.originalHeight * pid.scaleY.num - originalY,
                               height * pid.scaleY.den)
    IN  <<originalX, originalY, originalWidth_, originalHeight_>>

(***************************************************************************)
(* convertToImageCoordinates (image.ts 589-617).  Returns                  *)
(* <<clampedX1, clampedY1, boxWidth, boxHeight>>; clampedX1 and boxWidth   *)
(* are numerators over xDen(pid), clampedY1 and boxHeight over yDen(pid).  *)
(***************************************************************************)
convertToImageCoordinates(xCenter, yCenter, width, height, pid) ==
    LET originalWidth == pid.originalWidth
        originalHeight == pid.originalHeight
        x1 == (2 * xCenter - width) * xRatio(pid).num
        y1 == (2 * yCenter - height) * yRatio(pid).num
        x2 == (2 * xCenter + width) * xRatio(pid).num
        y2 == (2 * yCenter + height) * yRatio(pid).num
        clampedX1 == Max(0, x1)
        clampedY1 == Max(0, y1)
        clampedX2 == Min(originalWidth * xDen(pid), x2)
        clampedY2 == Min(originalHeight * yDen(pid), y2)
        boxWidth == clampedX2 - clampedX1
        boxHeight == clampedY2 - clampedY1
    IN  <<clampedX1, clampedY1, boxWidth, boxHeight>>

\* mutant: union computed as area1 + area2, the intersection counted twice
calculateIoU_doubleCount(box1, box2, area1, area2) ==
    LET left == Max(box1[1], box2[1])
        top == Max(box1[2], box2[2])
        right == Min(box1[1] + box1[3], box2[1] + box2[3])
        bottom == Min(box1[2] + box1[4], box2[2] + box2[4])
        intersection == (right - left) * (bottom - top)
        union == area1 + area2
    IN  IF right <= left \/ bottom <= top
        THEN Quot(0, 1)
        ELSE Quot(intersection, union)

(***************************************************************************)
(* calculateIoU (image.ts 671-699).  A box is <<x, y, w, h>>.  The early   *)
(* return is the quotient 0/1; otherwise the quotient is                   *)
(* intersection / union, left undivided.                                   *)
(***************************************************************************)
calculateIoU(box1, box2, area1, area2) ==
    LET left == Max(box1[1], box2[1])
        top == Max(box1[2], box2[2])
        right == Min(box1[1] + box1[3], box2[1] + box2[3])
        bottom == Min(box1[2] + box1[4], box2[2] + box2[4])
        intersection == (right - left) * (bottom - top)
        union == area1 + area2 - intersection
    IN  IF right <= left \/ bottom <= top
        THEN Quot(0, 1)
        ELSE Quot(intersection, union)

\* true when calculateIoU takes the early return (no division performed)
noOverlap(box1, box2) ==
    \/ Min(box1[1] + box1[3], box2[1] + box2[3]) <= Max(box1[1], box2[1])
    \/ Min(box1[2] + box1[4], box2[2] + box2[4]) <= Max(box1[2], box2[2])

(***************************************************************************)
(* nms (image.ts 622-666).                                                 *)
(***************************************************************************)
\* areas: boxes.map(box => width * height)
areasOf(bs) == [k \in DOMAIN bs |-> bs[k][3] * bs[k][4]]

\* mutant: the comparator written a.score - b.score (ascending order)
sortedIndicesOf_ascending(sc) ==
    LET n == Len(sc)
        before(i, j) == sc[i] < sc[j] \/ (sc[i] = sc[j] /\ i < j)
        rank(i) == 1 + Cardinality({j \in 1..n : before(j, i)})
    IN  [p \in 1..n |-> (CHOOSE i \in 1..n : rank(i) = p) - 1]

\* scores.map(...).sort((a, b) => b.score - a.score).map(item => item.index):
\* the stable descending order of the 0-based indices.
sortedIndicesOf(sc) ==
    LET n == Len(sc)
        before(i, j) == sc[i] > sc[j] \/ (sc[i] = sc[j] /\ i < j)
        rank(i) == 1 + Cardinality({j \in 1..n : before(j, i)})
    IN  [p \in 1..n |-> (CHOOSE i \in 1..n : rank(i) = p) - 1]

\* mutant: the inner loop stops at i > 0, so sortedIndices[0] is never compared
suppress_skipFirst(bs, areas, iouThreshold, currentIndex, sortedIndices) ==
    IF sortedIndices = <<>>
    THEN <<>>
    ELSE <<Head(sortedIndices)>> \o
         SelectSeq(Tail(sortedIndices),
                   LAMBDA compareIndex :
                       ~QGt(calculateIoU(At(bs, currentIndex), At(bs, compareIndex),
                                         At(areas, currentIndex),
                                         At(areas, compareIndex)),
                            iouThreshold))

\* mutant: the test written iou >= iouThreshold
suppress_atThreshold(bs, areas, iouThreshold, currentIndex, sortedIndices) ==
    SelectSeq(sortedIndices,
              LAMBDA compareIndex :
                  QGt(iouThreshold,
                      calculateIoU(At(bs, currentIndex), At(bs, compareIndex),
                                   At(areas, currentIndex), At(areas, compareIndex))))

\* the inner loop (646-662): splice out every remaining index whose IoU with
\* the box just kept exceeds iouThreshold; the others keep their order.
suppress(bs, areas, iouThreshold, currentIndex, sortedIndices) ==
    SelectSeq(sortedIndices,
              LAMBDA compareIndex :
                  ~QGt(calculateIoU(At(bs, currentIndex), At(bs, compareIndex),
                                    At(areas, currentIndex), At(areas, compareIndex)),
                       iouThreshold))

RECURSIVE nmsLoop(_, _, _, _, _)
nmsLoop(bs, areas, iouThreshold, sortedIndices, indices) ==
    IF sortedIndices = <<>>
    THEN indices
    ELSE LET currentIndex == Head(sortedIndices)
         IN  nmsLoop(bs, areas, iouThreshold,
                     suppress(bs, areas, iouThreshold, currentIndex, Tail(sortedIndices)),
                     Append(indices, currentIndex))

nms(bs, sc, iouThreshold) ==
    nmsLoop(bs, areasOf(bs), iouThreshold, sortedIndicesOf(sc), <<>>)

(***************************************************************************)
(* Tensor access and the per-anchor filters of the decode loops.           *)
(***************************************************************************)
\* mutant: a read outside the buffer yields the last value of the buffer
read_clamped(out, idx) ==
    IF idx \in DOMAIN out THEN out[idx]
    ELSE IF DOMAIN out = {} THEN 0
    ELSE out[CHOOSE m \in DOMAIN out : \A n \in DOMAIN out : n <= m]

\* output[idx] ?? 0: a read outside the buffer yields 0
read(out, idx) == IF idx \in DOMAIN out THEN out[idx] ELSE 0

\* mutant: the comparison written classScore >= maxScore (the last wins a tie)
RECURSIVE findBestClass_lastWins(_, _, _, _, _)
findBestClass_lastWins(out, i, j, maxScore, bestClassId) ==
    IF j >= NUM_CLASSES
    THEN <<maxScore, bestClassId>>
    ELSE LET classScore == read(out, (4 + j) * NUM_DETECTIONS + i)
         IN  IF classScore >= maxScore
             THEN findBestClass_lastWins(out, i, j + 1, classScore, j)
             ELSE findBestClass_lastWins(out, i, j + 1, maxScore, bestClassId)

\* mutant: the scan reads the class channels from channel 5 on (4 + j + 1)
RECURSIVE findBestClass_shifted(_, _, _, _, _)
findBestClass_shifted(out, i, j, maxScore, bestClassId) ==
    IF j >= NUM_CLASSES
    THEN <<maxScore, bestClassId>>
    ELSE LET classScore == read(out, (4 + j + 1) * NUM_DETECTIONS + i)
         IN  IF classScore > maxScore
             THEN findBestClass_shifted(out, i, j + 1, classScore, j)
             ELSE findBestClass_shifted(out, i, j + 1, maxScore, bestClassId)

\* the class scan (726-736, 820-830): strict > from maxScore = 0, bestClassId = 0;
\* returns <<maxScore, bestClassId>>
RECURSIVE findBestClass(_, _, _, _, _)
findBestClass(out, i, j, maxScore, bestClassId) ==
    IF j >= NUM_CLASSES
    THEN <<maxScore, bestClassId>>
    ELSE LET classScore == read(out, (4 + j) * NUM_DETECTIONS + i)
         IN  IF classScore > maxScore
             THEN findBestClass(out, i, j + 1, classScore, j)
             ELSE findBestClass(out, i, j + 1, maxScore, bestClassId)

\* mutant: only a zero score is dropped, the threshold is not consulted
belowConfidence_zeroOnly(score, confidenceThreshold) == score <= 0

\* if (maxScore < confidenceThreshold) continue   (739, 833, 945)
belowConfidence(score, confidenceThreshold) == score < confidenceThreshold

\* if (width <= 0 || height <= 0) continue        (744, 834, 946)
invalidBox(width, height) == width <= 0 \/ height <= 0

\* mutant: && in place of ||
tooSmall_and(boxWidth, boxHeight, pid) ==
    boxWidth < MinBoxSize * xDen(pid) /\ boxHeight < MinBoxSize * yDen(pid)

\* if (boxWidth < 20 || boxHeight < 20) continue  (753, 846, 976)
tooSmall(boxWidth, boxHeight, pid) ==
    boxWidth < MinBoxSize * xDen(pid) \/ boxHeight < MinBoxSize * yDen(pid)

\* mutant: slice(0, maxDetections + 1)
sliceTo_offByOne(seq, maxDetections) == SubSeq(seq, 1, Min(Len(seq), maxDetections + 1))

\* selectedIndices.slice(0, maxDetections)        (764, 868, 993)
sliceTo(seq, maxDetections) == SubSeq(seq, 1, Min(Len(seq), maxDetections))

\* COCO_CLASSES[classId] ?? 'unknown', with the head of the 80-entry table
COCO_CLASSES == <<"person", "bicycle", "car", "motorcycle", "airplane">>
classNameOf(classId) ==
    IF classId >= 0 /\ classId < Len(COCO_CLASSES)
    THEN At(COCO_CLASSES, classId)
    ELSE "unknown"

\* the arrays filled by a decode loop; detections (segmentation) and
\* candidatePoses (pose) are empty where the assembler has no such array
NoCandidates ==
    [boxes |-> <<>>, scores |-> <<>>, classIds |-> <<>>, anchors |-> <<>>,
     detections |-> <<>>, candidatePoses |-> <<>>]
\* boxes.push(...); scores.push(...), for anchor i
pushBox(c, bbox, score, i) ==
    [c EXCEPT !.boxes = Append(c.boxes, bbox), !.scores = Append(c.scores, score),
              !.anchors = Append(c.anchors, i)]
\* boxes.push(...); scores.push(...); classIds.push(...), for anchor i
pushCandidate(c, bbox, score, classId, i) ==
    [pushBox(c, bbox, score, i) EXCEPT !.classIds = Append(c.classIds, classId)]

(***************************************************************************)
(* processDetections (image.ts 704-782).                                   *)
(***************************************************************************)
\* the decode loop (719-758), from anchor i on, c being what was pushed so far
RECURSIVE decodeDetections(_, _, _, _, _)
decodeDetections(out, pid, opts, i, c) ==
    IF i >= NUM_DETECTIONS
    THEN c
    ELSE LET xCenter == read(out, 0 * NUM_DETECTIONS + i)
             yCenter == read(out, 1 * NUM_DETECTIONS + i)
             width == read(out, 2 * NUM_DETECTIONS + i)
             height == read(out, 3 * NUM_DETECTIONS + i)
             best == findBestClass(out, i, 0, 0, 0)
             bbox == convertToImageCoordinates(xCenter, yCenter, width, height, pid)
         IN  IF \/ belowConfidence(best[1], opts.confidenceThreshold)
                \/ invalidBox(width, height)
                \/ tooSmall(bbox[3], bbox[4], pid)
             THEN decodeDetections(out, pid, opts, i + 1, c)
             ELSE decodeDetections(out, pid, opts, i + 1,
                                   pushCandidate(c, bbox, best[1], best[2], i))

\* the final loop (764-779)
assembleDetections(c, selected, maxDetections) ==
    LET kept == sliceTo(selected, maxDetections)
    IN  [k \in 1..Len(kept) |->
            [bbox |-> At(c.boxes, kept[k]),
             score |-> At(c.scores, kept[k]),
             class |-> classNameOf(At(c.classIds, kept[k])),
             classIndex |-> At(c.classIds, kept[k])]]

\* processDetections with its locals exposed: what the decode loop pushed, what
\* nms selected and the returned sequence
processDetectionsRun(out, pid, opts) ==
    LET c == decodeDetections(out, pid, opts, 0, NoCandidates)
        selected == nms(c.boxes, c.scores, opts.iouThreshold)
    IN  [boxes |-> c.boxes, scores |-> c.scores, classIds |-> c.classIds,
         anchors |-> c.anchors, selectedIndices |-> selected,
         results |-> assembleDetections(c, selected, opts.maxDetections)]

processDetections(out, pid, opts) == processDetectionsRun(out, pid, opts).results

(***************************************************************************)
(* processSegmentations (image.ts 787-912).  The function shadows          *)
(* NUM_DETECTIONS, NUM_CLASSES with the same values and reads the mask     *)
(* coefficients from channel 84 = 4 + NUM_CLASSES on.                      *)
(***************************************************************************)
\* maskCoeffs (836-840)
maskCoeffsOf(out, i) ==
    [j \in 1..NumMaskCoeffs |->
        read(out, (4 + NUM_CLASSES + (j - 1)) * NUM_DETECTIONS + i)]

\* the decode loop (813-860); c.detections is the local array `detections`
RECURSIVE decodeSegmentations(_, _, _, _, _)
decodeSegmentations(out, pid, opts, i, c) ==
    IF i >= NUM_DETECTIONS
    THEN c
    ELSE LET xCenter == read(out, 0 * NUM_DETECTIONS + i)
             yCenter == read(out, 1 * NUM_DETECTIONS + i)
             width == read(out, 2 * NUM_DETECTIONS + i)
             height == read(out, 3 * NUM_DETECTIONS + i)
             best == findBestClass(out, i, 0, 0, 0)
             bbox == convertToImageCoordinates(xCenter, yCenter, width, height, pid)
         IN  IF \/ belowConfidence(best[1], opts.confidenceThreshold)
                \/ invalidBox(width, height)
                \/ tooSmall(bbox[3], bbox[4], pid)
             THEN decodeSegmentations(out, pid, opts, i + 1, c)
             ELSE decodeSegmentations(out, pid, opts, i + 1,
                    [pushCandidate(c, bbox, best[1], best[2], i) EXCEPT
                        !.detections = Append(c.detections,
                            [bbox |-> bbox, score |-> best[1],
                             class |-> classNameOf(best[2]), classIndex |-> best[2],
                             maskCoeffs |-> maskCoeffsOf(out, i)])])

\* mutant: the right and bottom edges of the box are filled too
maskPixel_inclusive(bbox, pid, col, row) ==
    IF /\ col * xDen(pid) >= bbox[1] /\ col * xDen(pid) <= bbox[1] + bbox[3]
       /\ row * yDen(pid) >= bbox[2] /\ row * yDen(pid) <= bbox[2] + bbox[4]
    THEN <<255, 0, 0, 128>>
    ELSE <<0, 0, 0, 0>>

\* one pixel <<R, G, B, A>> of the placeholder mask (880-897); x and width are
\* numerators over xDen(pid), y and height over yDen(pid)
maskPixel(bbox, pid, col, row) ==
    IF /\ col * xDen(pid) >= bbox[1] /\ col * xDen(pid) < bbox[1] + bbox[3]
       /\ row * yDen(pid) >= bbox[2] /\ row * yDen(pid) < bbox[2] + bbox[4]
    THEN <<255, 0, 0, 128>>
    ELSE <<0, 0, 0, 0>>

\* the final loop (868-908); the mask is kept as its size and the box that
\* maskPixel fills
assembleSegmentations(c, selected, maxDetections, pid) ==
    LET kept == sliceTo(selected, maxDetections)
    IN  [k \in 1..Len(kept) |->
            LET detection == At(c.detections, kept[k])
            IN  [bbox |-> detection.bbox,
                 score |-> detection.score,
                 class |-> detection.class,
                 classIndex |-> detection.classIndex,
                 mask |-> [width |-> pid.originalWidth,
                           height |-> pid.originalHeight,
                           fill |-> detection.bbox]]]

processSegmentationsRun(out, pid, opts) ==
    LET c == decodeSegmentations(out, pid, opts, 0,
                                 NoCandidates)
        selected == nms(c.boxes, c.scores, opts.iouThreshold)
    IN  [boxes |-> c.boxes, scores |-> c.scores, classIds |-> c.classIds,
         anchors |-> c.anchors, selectedIndices |-> selected,
         results |-> assembleSegmentations(c, selected, opts.maxDetections, pid)]

processSegmentations(out, pid, opts) == processSegmentationsRun(out, pid, opts).results

(***************************************************************************)
(* processPoses (image.ts 917-1008).                                       *)
(***************************************************************************)
POSE_KEYPOINTS ==
    <<"nose", "left_eye", "right_eye", "left_ear", "right_ear",
      "left_shoulder", "right_shoulder", "left_elbow", "right_elbow",
      "left_wrist", "right_wrist", "left_hip", "right_hip",
      "left_knee", "right_knee", "left_ankle", "right_ankle">>
keypointNameOf(j) ==
    IF j >= 0 /\ j < Len(POSE_KEYPOINTS) THEN At(POSE_KEYPOINTS, j) ELSE "keypoint_j"

\* mutant: every anchor is given the keypoints of anchor 0
keypointsOf_firstAnchor(out, i, pid) ==
    [k \in 1..NumKeypoints |->
        LET j == k - 1
            keypointX == read(out, (5 + j * 3) * NUM_DETECTIONS)
            keypointY == read(out, (5 + j * 3 + 1) * NUM_DETECTIONS)
            keypointConf == read(out, (5 + j * 3 + 2) * NUM_DETECTIONS)
        IN  [x |-> Max(0, Min(pid.originalWidth * xDen(pid),
                              2 * keypointX * xRatio(pid).num)),
             y |-> Max(0, Min(pid.originalHeight * yDen(pid),
                              2 * keypointY * yRatio(pid).num)),
             confidence |-> keypointConf,
             name |-> keypointNameOf(j)]]

\* the keypoints of anchor i (948-970): x over xDen(pid), y over yDen(pid)
keypointsOf(out, i, pid) ==
    [k \in 1..NumKeypoints |->
        LET j == k - 1
            keypointX == read(out, (5 + j * 3) * NUM_DETECTIONS + i)
            keypointY == read(out, (5 + j * 3 + 1) * NUM_DETECTIONS + i)
            keypointConf == read(out, (5 + j * 3 + 2) * NUM_DETECTIONS + i)
        IN  [x |-> Max(0, Min(pid.originalWidth * xDen(pid),
                              2 * keypointX * xRatio(pid).num)),
             y |-> Max(0, Min(pid.originalHeight * yDen(pid),
                              2 * keypointY * yRatio(pid).num)),
             confidence |-> keypointConf,
             name |-> keypointNameOf(j)]]

\* the decode loop (936-986); c.candidatePoses is the local array
RECURSIVE decodePoses(_, _, _, _, _)
decodePoses(out, pid, opts, i, c) ==
    IF i >= NUM_DETECTIONS
    THEN c
    ELSE LET xCenter == read(out, 0 * NUM_DETECTIONS + i)
             yCenter == read(out, 1 * NUM_DETECTIONS + i)
             width == read(out, 2 * NUM_DETECTIONS + i)
             height == read(out, 3 * NUM_DETECTIONS + i)
             personConf == read(out, 4 * NUM_DETECTIONS + i)
             bbox == convertToImageCoordinates(xCenter, yCenter, width, height, pid)
         IN  IF \/ belowConfidence(personConf, opts.confidenceThreshold)
                \/ invalidBox(width, height)
                \/ tooSmall(bbox[3], bbox[4], pid)
             THEN decodePoses(out, pid, opts, i + 1, c)
             ELSE decodePoses(out, pid, opts, i + 1,
                    [pushBox(c, bbox, personConf, i) EXCEPT
                        !.candidatePoses = Append(c.candidatePoses,
                            [bbox |-> bbox, score |-> personConf,
                             keypoints |-> keypointsOf(out, i, pid)])])

\* the final loop (993-1004)
assemblePoses(c, selected, maxDetections) ==
    LET kept == sliceTo(selected, maxDetections)
    IN  [k \in 1..Len(kept) |->
            LET candidate == At(c.candidatePoses, kept[k])
            IN  [bbox |-> candidate.bbox,
                 score |-> candidate.score,
                 class |-> "person",
                 classIndex |-> 0,
                 keypoints |-> candidate.keypoints]]

processPosesRun(out, pid, opts) ==
    LET c == decodePoses(out, pid, opts, 0,
                         NoCandidates)
        selected == nms(c.boxes, c.scores, opts.iouThreshold)
    IN  [boxes |-> c.boxes, scores |-> c.scores, classIds |-> c.classIds,
         anchors |-> c.anchors, selectedIndices |-> selected,
         results |-> assemblePoses(c, selected, opts.maxDetections)]

processPoses(out, pid, opts) == processPosesRun(out, pid, opts).results

(***************************************************************************)
(* Geometry contexts.                                                      *)
(***************************************************************************)
\* the ProcessedImageData returned by preprocessImage (image.ts 132-142),
\* without its pixel data
preprocessImage(originalWidth, originalHeight, targetWidth, targetHeight) ==
    [originalWidth |-> originalWidth, originalHeight |-> originalHeight,
     processedWidth |-> targetWidth, processedHeight |-> targetHeight,
     scaleX |-> Quot(targetWidth, originalWidth),
     scaleY |-> Quot(targetHeight, originalHeight),
     padX |-> 0, padY |-> 0]

\* the letterbox context of the scaleCoordinates test (image.ts 1020-1030)
FixtureContext ==
    [originalWidth |-> 1280, originalHeight |-> 720,
     processedWidth |-> 640, processedHeight |-> 640,
     scaleX |-> Quot(1, 2), scaleY |-> Quot(1, 2), padX |-> 0, padY |-> 80]

(***************************************************************************)
(* Inputs: the bounded sets the operations are applied to.                 *)
(***************************************************************************)
\* original image sizes: a 16:9 frame and an image under 20 pixels a side
ImageSizes == {<<1280, 720>>, <<16, 16>>}
AssemblerContexts ==
    {preprocessImage(s[1], s[2], MODEL_WIDTH, MODEL_HEIGHT) : s \in ImageSizes}
Contexts == AssemblerContexts \cup {FixtureContext}

\* scores in tenths: 0, 0.3 (under the default threshold), 0.8 and 0.9
ScoreSet == {0, 3, 8, 9}
\* confidenceThreshold 0.5 and iouThreshold 0.4 are DEFAULT_CONFIG; 7/13 is
\* the exact IoU of two 100x100 boxes 30 apart
ConfidenceThresholds == {5}
IouThresholds == {Quot(4, 10), Quot(7, 13)}
MaxDetectionsOptions == {1, 2}
OptionSet(modelType, iouThresholds) ==
    [confidenceThreshold : ConfidenceThresholds, iouThreshold : iouThresholds,
     maxDetections : MaxDetectionsOptions, modelType : {modelType}]

\* per-anchor box channels <<cx, cy, w, h>> in model pixels: all zero; A; B, 30
\* right of A (IoU 7/13); D, apart from both; S, 8 wide (16 < 20 pixels in a
\* 1280-pixel frame)
AnchorBoxes ==
    {<<0, 0, 0, 0>>, <<100, 100, 100, 100>>, <<130, 100, 100, 100>>,
     <<400, 300, 100, 100>>, <<100, 100, 8, 100>>}

\* per-anchor class-score channels: every class at 0, or one class with a
\* score: class 0 at 0.3, class 0 at 0.9, the last class at 0.8
oneHot(j, v) == [k \in 0..(NUM_CLASSES - 1) |-> IF k = j THEN v ELSE 0]
ClassColumns == {oneHot(0, 0), oneHot(0, 3), oneHot(0, 9), oneHot(NUM_CLASSES - 1, 8)}

\* a [4 + NUM_CLASSES, NUM_DETECTIONS] channel-major tensor
DetectionTensor(bx, cols) ==
    [idx \in 0..((4 + NUM_CLASSES) * NUM_DETECTIONS - 1) |->
        LET ch == idx \div NUM_DETECTIONS
            i == idx % NUM_DETECTIONS
        IN  IF ch < 4 THEN bx[i][ch + 1] ELSE cols[i][ch - 4]]
AnchorBoxChoices == [0..(NUM_DETECTIONS - 1) -> AnchorBoxes]
ClassColumnChoices == [0..(NUM_DETECTIONS - 1) -> ClassColumns]

\* a [4 + NUM_CLASSES + NumMaskCoeffs, NUM_DETECTIONS] tensor: the detection
\* channels followed by mask coefficients (coefficient j of anchor i is i + j)
SegmentationTensor(bx, cols) ==
    [idx \in 0..((4 + NUM_CLASSES + NumMaskCoeffs) * NUM_DETECTIONS - 1) |->
        LET ch == idx \div NUM_DETECTIONS
            i == idx % NUM_DETECTIONS
        IN  IF ch < 4 THEN bx[i][ch + 1]
            ELSE IF ch < 4 + NUM_CLASSES THEN cols[i][ch - 4]
            ELSE i + (ch - 4 - NUM_CLASSES)]

\* a [5 + 3 * NumKeypoints, NUM_DETECTIONS] tensor: box, person confidence,
\* then (kx, ky, kconf) per keypoint; keypoint j of an anchor lies at
\* (cx - 700 + 700 * j, cy) with confidence 0.5, so keypoint 0 is left of
\* the image, keypoint 1 at the box centre and keypoint 2 right of the image
PoseTensor(bx, conf) ==
    [idx \in 0..((5 + 3 * NumKeypoints) * NUM_DETECTIONS - 1) |->
        LET ch == idx \div NUM_DETECTIONS
            i == idx % NUM_DETECTIONS
        IN  IF ch < 4 THEN bx[i][ch + 1]
            ELSE IF ch = 4 THEN conf[i]
            ELSE IF (ch - 5) % 3 = 0 THEN bx[i][1] - 700 + 700 * ((ch - 5) \div 3)
            ELSE IF (ch - 5) % 3 = 1 THEN bx[i][2]
            ELSE 5]
PersonConfChoices == [0..(NUM_DETECTIONS - 1) -> ScoreSet]

\* corner-form boxes <<x, y, w, h>> for nms: A; A2, 2 right of A (IoU 98/102);
\* B, 30 right of A (IoU 7/13); E, 60 right of A (IoU 1/4); D, apart from all
NmsBoxes ==
    {<<100, 100, 100, 100>>, <<102, 100, 100, 100>>, <<130, 100, 100, 100>>,
     <<160, 100, 100, 100>>, <<300, 100, 100, 100>>}
NmsScores == {8, 9}
SeqsUpTo(S, n) == UNION {[1..k -> S] : k \in 0..n}

\* boxes on a small grid for calculateIoU, degenerate ones included
GridBoxes == (0..MaxCoord) \X (0..1) \X (0..MaxCoord) \X (0..MaxCoord)

(***************************************************************************)
(* The state machine: from the idle state one operation is applied to one  *)
(* input and its call record is kept; Return goes back to idle.            *)
(***************************************************************************)
None == <<>>

Calls == 1..NumCalls
Sessions == 1..NumSessions
Loads == 1..MaxLoads
NoSession == 0
\* new InferenceMutex() (84-85), and a session without an entry in the WeakMap
NewMutex == [exists |-> TRUE, isLocked |-> FALSE, queue |-> <<>>]
NoMutex == [exists |-> FALSE, isLocked |-> FALSE, queue |-> <<>>]
\* the initial YoloState (hooks/index.ts 67-73); error "" is null, modelInfo
\* "" is null
InitialState ==
    [isLoading |-> FALSE, isModelReady |-> FALSE, error |-> "",
     modelInfo |-> "", downloadProgress |-> 0]

InitInference ==
    /\ sessionMutexMap = [s \in Sessions |-> NoMutex]
    /\ callPc = [c \in Calls |-> "idle"]
    /\ callSession = [c \in Calls |-> NoSession]
    /\ acquired = [c \in Calls |-> FALSE]
    /\ requests = [s \in Sessions |-> <<>>]
    /\ handedTo = {}

InitHook ==
    /\ state = InitialState
    /\ inferenceSessionRef = NoSession
    /\ mountedRef = TRUE
    /\ hookPhase = "constructed"
    /\ loadPc = [l \in Loads |-> "notStarted"]
    /\ disposedSessions = {}
    /\ lastCall = "none"

\* the YoloConfig fields predict reads (51-64): DEFAULT_CONFIG has neither
\* maxFPS nor skipFrames, and an undefined one fails `> 0` as 0 does
DefaultConfig == [maxFPS |-> 0, skipFrames |-> 0]
\* maxFPS 500 is a minimum interval of 2 ms; skipFrames 1 runs every other frame
Configs ==
    {DefaultConfig, [maxFPS |-> 500, skipFrames |-> 0],
     [maxFPS |-> 0, skipFrames |-> 1], [maxFPS |-> 500, skipFrames |-> 1]}
Predicts == 1..NumPredicts
NoExit == [call |-> 0, exit |-> "none"]
Never == [time |-> -1, reset |-> FALSE]

InitPredict ==
    /\ config = DefaultConfig
    /\ now = 0
    /\ predictionInProgressRef = FALSE
    /\ lastPredictionTimeRef = 0
    /\ frameCountRef = 0
    /\ predictPc = [p \in Predicts |-> "idle"]
    /\ lastExit = NoExit
    /\ lastAccepted = Never
    /\ lastInference = Never

NoFrame == 0
NoSubmit == [time |-> -1, previous |-> -1, restarted |-> FALSE, between |-> FALSE]

InitContinuous ==
    /\ processingRef = FALSE
    /\ animationFrameRef = NoFrame
    /\ videoRef = FALSE
    /\ lastProcessTimeRef = 0
    /\ animationFrames = {}
    /\ lastHandle = 0
    /\ startThrown = None
    /\ lastSubmit = NoSubmit

Init ==
    /\ InitInference
    /\ InitHook
    /\ InitPredict
    /\ InitContinuous
    /\ op = "init"
    /\ args = None /\ ret = None
    /\ output = None /\ processedImageData = None /\ options = None
    /\ boxes = <<>> /\ scores = <<>> /\ classIds = <<>> /\ anchors = <<>>
    /\ selectedIndices = <<>> /\ results = <<>>
    /\ thrown = None

NoAssembler ==
    /\ output' = None /\ processedImageData' = None /\ options' = None
    /\ boxes' = <<>> /\ scores' = <<>> /\ classIds' = <<>> /\ anchors' = <<>>
    /\ selectedIndices' = <<>> /\ results' = <<>>
    /\ thrown' = None
    /\ UNCHANGED <<inferenceVars, hookVars, predictVars, continuousVars>>

CallCalculateIoU ==
    /\ op = "init"
    /\ \E box1 \in GridBoxes, box2 \in GridBoxes :
          /\ args' = <<box1, box2>>
          /\ ret' = calculateIoU(box1, box2, box1[3] * box1[4], box2[3] * box2[4])
    /\ op' = "calculateIoU"
    /\ NoAssembler

CallConvertToImageCoordinates ==
    /\ op = "init"
    /\ \E xCenter \in {-50, 100, 320, 700}, yCenter \in {100, 700},
          width \in {10, 20, 100, 1000}, height \in {20, 100},
          pid \in AssemblerContexts :
          /\ args' = <<xCenter, yCenter, width, height, pid>>
          /\ ret' = convertToImageCoordinates(xCenter, yCenter, width, height, pid)
    /\ op' = "convertToImageCoordinates"
    /\ NoAssembler

CallScaleCoordinates ==
    /\ op = "init"
    /\ \E x \in {0, 100}, y \in {50, 100}, width \in {200, 3000}, height \in {150},
          pid \in Contexts :
          /\ args' = <<x, y, width, height, pid>>
          /\ ret' = scaleCoordinates(x, y, width, height, pid)
    /\ op' = "scaleCoordinates"
    /\ NoAssembler

CallNms ==
    /\ op = "init"
    /\ \E bs \in SeqsUpTo(NmsBoxes, MaxBoxes), iouThreshold \in IouThresholds :
       \E sc \in [1..Len(bs) -> NmsScores] :
          /\ boxes' = bs
          /\ scores' = sc
          /\ options' = [iouThreshold |-> iouThreshold]
          /\ selectedIndices' = nms(bs, sc, iouThreshold)
    /\ op' = "nms"
    /\ args' = None /\ ret' = None
    /\ output' = None /\ processedImageData' = None
    /\ classIds' = <<>> /\ anchors' = <<>> /\ results' = <<>>
    /\ thrown' = None
    /\ UNCHANGED <<inferenceVars, hookVars, predictVars, continuousVars>>

ProcessDetections ==
    /\ op = "init"
    /\ \E bx \in AnchorBoxChoices, cols \in ClassColumnChoices,
          pid \in AssemblerContexts,
          opts \in OptionSet("detection", {Quot(4, 10)}) :
       \E out \in {DetectionTensor(bx, cols)} :
       \E run \in {processDetectionsRun(out, pid, opts)} :
              /\ output' = out
              /\ processedImageData' = pid
              /\ options' = opts
              /\ boxes' = run.boxes
              /\ scores' = run.scores
              /\ classIds' = run.classIds
              /\ anchors' = run.anchors
              /\ selectedIndices' = run.selectedIndices
              /\ results' = run.results
    /\ op' = "processDetections"
    /\ args' = None /\ ret' = None
    /\ thrown' = None
    /\ UNCHANGED <<inferenceVars, hookVars, predictVars, continuousVars>>

ProcessSegmentations ==
    /\ op = "init"
    /\ \E bx \in AnchorBoxChoices, cols \in ClassColumnChoices,
          pid \in AssemblerContexts,
          opts \in OptionSet("segmentation", {Quot(4, 10)}) :
       \E out \in {SegmentationTensor(bx, cols)} :
       \E run \in {processSegmentationsRun(out, pid, opts)} :
              /\ output' = out
              /\ processedImageData' = pid
              /\ options' = opts
              /\ boxes' = run.boxes
              /\ scores' = run.scores
              /\ classIds' = run.classIds
              /\ anchors' = run.anchors
              /\ selectedIndices' = run.selectedIndices
              /\ results' = run.results
    /\ op' = "processSegmentations"
    /\ args' = None /\ ret' = None
    /\ thrown' = None
    /\ UNCHANGED <<inferenceVars, hookVars, predictVars, continuousVars>>

ProcessPoses ==
    /\ op = "init"
    /\ \E bx \in AnchorBoxChoices, conf \in PersonConfChoices,
          pid \in AssemblerContexts,
          opts \in OptionSet("pose", {Quot(4, 10)}) :
       \E out \in {PoseTensor(bx, conf)} :
       \E run \in {processPosesRun(out, pid, opts)} :
              /\ output' = out
              /\ processedImageData' = pid
              /\ options' = opts
              /\ boxes' = run.boxes
              /\ scores' = run.scores
              /\ classIds' = run.classIds
              /\ anchors' = run.anchors
              /\ selectedIndices' = run.selectedIndices
              /\ results' = run.results
    /\ op' = "processPoses"
    /\ args' = None /\ ret' = None
    /\ thrown' = None
    /\ UNCHANGED <<inferenceVars, hookVars, predictVars, continuousVars>>

Return ==
    /\ op # "init"
    /\ op' = "init"
    /\ args' = None /\ ret' = None
    /\ NoAssembler

Next ==
    \/ CallCalculateIoU
    \/ CallConvertToImageCoordinates
    \/ CallScaleCoordinates
    \/ CallNms
    \/ ProcessDetections
    \/ ProcessSegmentations
    \/ ProcessPoses
    \/ Return

Spec == Init /\ [][Next]_vars

(***************************************************************************)
(* The post-processing step of useYolo.predict (hooks/index.ts 243-359)    *)
(* over the configurations and tensors a caller can hand it: a customModel *)
(* with a 320 x 320 input, thresholds of 0, tensors shorter than           *)
(* channels x anchors, and class scores that tie, exceed 1 or are          *)
(* negative.                                                               *)
(***************************************************************************)
\* modelConfig.inputShape[3] = inputShape[2]: 640 for DEFAULT_MODELS, 320 for
\* a customModel
InputSizes == {640, 320}
\* preprocessImage(imageData, {targetWidth: inputShape[3], targetHeight:
\* inputShape[2], ...}) of a 1280 x 720 frame (243-254)
PredictContexts == {preprocessImage(1280, 720, s, s) : s \in InputSizes}

\* postProcessOptions (272-278) for the confidenceThreshold, iouThreshold of
\* the hook's config: the defaults, confidenceThreshold 0, iouThreshold 0
PredictThresholds == {<<5, Quot(4, 10)>>, <<0, Quot(4, 10)>>, <<5, Quot(0, 10)>>}
PostProcessOptions(modelType) ==
    {[confidenceThreshold |-> t[1], iouThreshold |-> t[2],
      maxDetections |-> NUM_DETECTIONS, modelType |-> modelType] :
        t \in PredictThresholds}

\* per-anchor boxes inside a 320 x 320 input that do not overlap
PredictBoxes == {<<100, 100, 100, 100>>, <<250, 200, 100, 100>>}
\* per-anchor class scores: all 0; all 0.9 (a tie of every class); all -0.1;
\* rising negative scores (the maximum, -0.1, in the last class); 0.3 with the
\* last class at 0.9; 0.9 with the last class at 1.2
allClasses(v) == [k \in 0..(NUM_CLASSES - 1) |-> v]
lastClass(v, w) == [k \in 0..(NUM_CLASSES - 1) |-> IF k = NUM_CLASSES - 1 THEN w ELSE v]
PredictColumns ==
    {allClasses(0), allClasses(9), allClasses(-1),
     [k \in 0..(NUM_CLASSES - 1) |-> k - NUM_CLASSES],
     lastClass(3, 9), lastClass(9, 12)}
PredictBoxChoices == [0..(NUM_DETECTIONS - 1) -> PredictBoxes]
PredictColumnChoices == [0..(NUM_DETECTIONS - 1) -> PredictColumns]
\* person confidences: 0, 0.9, 1.2 and -0.1
PredictConfChoices == [0..(NUM_DETECTIONS - 1) -> {0, 9, 12, -1}]

\* the number of values of a tensor, and its first len values
TensorLength(out) == Cardinality(DOMAIN out)
Truncated(out, len) == [idx \in 0..(Min(len, TensorLength(out)) - 1) |-> out[idx]]
\* lengths of the outputTensor.data handed over: the whole tensor; the box
\* channels and one further value (not a multiple of the anchor count); one
\* value
TensorLengths(out) == {TensorLength(out), 4 * NUM_DETECTIONS + 1, 1}

PredictDetection ==
    /\ op = "init"
    /\ \E bx \in PredictBoxChoices, cols \in PredictColumnChoices,
          pid \in PredictContexts, opts \in PostProcessOptions("detection") :
       \E len \in TensorLengths(DetectionTensor(bx, cols)) :
       \E out \in {Truncated(DetectionTensor(bx, cols), len)} :
       \E run \in {processDetectionsRun(out, pid, opts)} :
              /\ output' = out
              /\ processedImageData' = pid
              /\ options' = opts
              /\ boxes' = run.boxes
              /\ scores' = run.scores
              /\ classIds' = run.classIds
              /\ anchors' = run.anchors
              /\ selectedIndices' = run.selectedIndices
              /\ results' = run.results
    /\ op' = "processDetections"
    /\ args' = None /\ ret' = None
    /\ thrown' = None
    /\ UNCHANGED <<inferenceVars, hookVars, predictVars, continuousVars>>

PredictSegmentation ==
    /\ op = "init"
    /\ \E bx \in PredictBoxChoices, cols \in PredictColumnChoices,
          pid \in PredictContexts, opts \in PostProcessOptions("segmentation") :
       \E len \in TensorLengths(SegmentationTensor(bx, cols)) :
       \E out \in {Truncated(SegmentationTensor(bx, cols), len)} :
       \E run \in {processSegmentationsRun(out, pid, opts)} :
              /\ output' = out
              /\ processedImageData' = pid
              /\ options' = opts
              /\ boxes' = run.boxes
              /\ scores' = run.scores
              /\ classIds' = run.classIds
              /\ anchors' = run.anchors
              /\ selectedIndices' = run.selectedIndices
              /\ results' = run.results
    /\ op' = "processSegmentations"
    /\ args' = None /\ ret' = None
    /\ thrown' = None
    /\ UNCHANGED <<inferenceVars, hookVars, predictVars, continuousVars>>

PredictPose ==
    /\ op = "init"
    /\ \E bx \in PredictBoxChoices, conf \in PredictConfChoices,
          pid \in PredictContexts, opts \in PostProcessOptions("pose") :
       \E len \in TensorLengths(PoseTensor(bx, conf)) :
       \E out \in {Truncated(PoseTensor(bx, conf), len)} :
       \E run \in {processPosesRun(out, pid, opts)} :
              /\ output' = out
              /\ processedImageData' = pid
              /\ options' = opts
              /\ boxes' = run.boxes
              /\ scores' = run.scores
              /\ classIds' = run.classIds
              /\ anchors' = run.anchors
              /\ selectedIndices' = run.selectedIndices
              /\ results' = run.results
    /\ op' = "processPoses"
    /\ args' = None /\ ret' = None
    /\ thrown' = None
    /\ UNCHANGED <<inferenceVars, hookVars, predictVars, continuousVars>>

\* the else branch (357-359) and the catch (377-384): a modelType that is none
\* of the three, on a customModel, raises after inference; no assembler runs
PredictUnsupported ==
    /\ op = "init"
    /\ \E bx \in PredictBoxChoices, cols \in PredictColumnChoices,
          pid \in PredictContexts, opts \in PostProcessOptions("classification") :
              /\ output' = DetectionTensor(bx, cols)
              /\ processedImageData' = pid
              /\ options' = opts
    /\ thrown' = <<"Prediction failed: Unsupported model type">>
    /\ UNCHANGED <<inferenceVars, hookVars, predictVars, continuousVars>>
    /\ op' = "predict"
    /\ args' = None /\ ret' = None
    /\ boxes' = <<>> /\ scores' = <<>> /\ classIds' = <<>> /\ anchors' = <<>>
    /\ selectedIndices' = <<>> /\ results' = <<>>

NextPredict ==
    \/ PredictDetection
    \/ PredictSegmentation
    \/ PredictPose
    \/ PredictUnsupported
    \/ Return

SpecPredict == Init /\ [][NextPredict]_vars

(***************************************************************************)
(* utils/inference.ts: InferenceMutex (83-106) and runInference (114-156). *)
(* The queue of resolve callbacks is the queue of the calls whose          *)
(* acquire() promise each callback resolves.  A call awaiting acquire()    *)
(* resumes in a later step than the one that resolved its promise.         *)
(***************************************************************************)
\* acquire() by call c (87-96): the new mutex and whether the promise is
\* resolved at once
acquire(mutex, c) ==
    IF ~mutex.isLocked
    THEN [mutex |-> [mutex EXCEPT !.isLocked = TRUE], resolved |-> TRUE]
    ELSE [mutex |-> [mutex EXCEPT !.queue = Append(mutex.queue, c)],
          resolved |-> FALSE]

\* mutant: release() resumes the call that queued last
release_lastFirst(mutex) ==
    IF mutex.queue # <<>>
    THEN [mutex |-> [mutex EXCEPT !.queue = SubSeq(mutex.queue, 1, Len(mutex.queue) - 1)],
          next |-> mutex.queue[Len(mutex.queue)]]
    ELSE [mutex |-> [mutex EXCEPT !.isLocked = FALSE], next |-> 0]

\* mutant: the lock is cleared also when it is handed to the next in the queue
release_unlocks(mutex) ==
    IF mutex.queue # <<>>
    THEN [mutex |-> [mutex EXCEPT !.queue = Tail(mutex.queue), !.isLocked = FALSE],
          next |-> Head(mutex.queue)]
    ELSE [mutex |-> [mutex EXCEPT !.isLocked = FALSE], next |-> 0]

\* release() (98-105): the new mutex and the call whose promise is resolved
\* (0: none)
release(mutex) ==
    IF mutex.queue # <<>>
    THEN [mutex |-> [mutex EXCEPT !.queue = Tail(mutex.queue)],
          next |-> Head(mutex.queue)]
    ELSE [mutex |-> [mutex EXCEPT !.isLocked = FALSE], next |-> 0]

\* the finally block of call c (152-155)
Finally(c) ==
    LET s == callSession[c]
        r == release(sessionMutexMap[s])
    IN  /\ sessionMutexMap' = [sessionMutexMap EXCEPT ![s] = r.mutex]
        /\ acquired' = [d \in Calls |-> IF d = r.next THEN TRUE ELSE acquired[d]]
        /\ handedTo' = (handedTo \ {c}) \cup (IF r.next = 0 THEN {} ELSE {r.next})
        /\ requests' = [requests EXCEPT ![s] = SelectSeq(requests[s], LAMBDA d : d # c)]

\* runInference up to `await mutex.acquire()` (119-129)
RunInference ==
    /\ \E c \in Calls, s \in Sessions :
          /\ callPc[c] = "idle"
          /\ LET mutex == IF sessionMutexMap[s].exists
                          THEN sessionMutexMap[s] ELSE NewMutex
                 r == acquire(mutex, c)
             IN  /\ sessionMutexMap' = [sessionMutexMap EXCEPT ![s] = r.mutex]
                 /\ acquired' = [acquired EXCEPT ![c] = r.resolved]
          /\ callSession' = [callSession EXCEPT ![c] = s]
          /\ callPc' = [callPc EXCEPT ![c] = "acquire"]
          /\ requests' = [requests EXCEPT ![s] = Append(requests[s], c)]
    /\ UNCHANGED handedTo
    /\ UNCHANGED <<pipelineVars, hookVars, predictVars, continuousVars>>

\* the call resumes with the lock and calls session.run(feeds) (131-141)
SessionRunOf(c) ==
    /\ callPc[c] = "acquire" /\ acquired[c]
    /\ callPc' = [callPc EXCEPT ![c] = "run"]
    /\ handedTo' = handedTo \ {c}
    /\ UNCHANGED <<sessionMutexMap, callSession, acquired, requests>>
    /\ UNCHANGED <<pipelineVars, hookVars, predictVars, continuousVars>>

SessionRun == \E c \in Calls : SessionRunOf(c)

\* the call resumes with the lock and `new ort.Tensor` throws (133, 149-155)
TensorThrowsOf(c) ==
    /\ callPc[c] = "acquire" /\ acquired[c]
    /\ Finally(c)
    /\ callPc' = [callPc EXCEPT ![c] = "threw"]
    /\ UNCHANGED callSession
    /\ UNCHANGED <<pipelineVars, hookVars, predictVars, continuousVars>>

TensorThrows == \E c \in Calls : TensorThrowsOf(c)

\* session.run settles: the results are returned (141-148, 152-155), or the
\* rejection is rethrown (149-155)
SessionRunSettlesOf(c) ==
    /\ \E outcome \in {"returned", "threw"} :
          /\ callPc[c] = "run"
          /\ Finally(c)
          /\ callPc' = [callPc EXCEPT ![c] = outcome]
    /\ UNCHANGED callSession
    /\ UNCHANGED <<pipelineVars, hookVars, predictVars, continuousVars>>

SessionRunSettles == \E c \in Calls : SessionRunSettlesOf(c)

\* the caller has its answer; the call slot is free for another runInference
CallCompletes ==
    /\ \E c \in Calls :
          /\ callPc[c] \in {"returned", "threw"}
          /\ callPc' = [callPc EXCEPT ![c] = "idle"]
          /\ callSession' = [callSession EXCEPT ![c] = NoSession]
          /\ acquired' = [acquired EXCEPT ![c] = FALSE]
    /\ UNCHANGED <<sessionMutexMap, requests, handedTo>>
    /\ UNCHANGED <<pipelineVars, hookVars, predictVars, continuousVars>>

NextInference ==
    \/ RunInference
    \/ SessionRun
    \/ TensorThrows
    \/ SessionRunSettles
    \/ CallCompletes

SpecInference == Init /\ [][NextInference]_vars

\* every call that holds the lock resumes, and its session.run settles
SpecInferenceFair ==
    /\ SpecInference
    /\ \A c \in Calls :
          WF_vars(SessionRunOf(c) \/ TensorThrowsOf(c) \/ SessionRunSettlesOf(c))

(***************************************************************************)
(* hooks/index.ts, useYolo: the model load (initializeModel, 105-166), the *)
(* effects (414-429) and reset (387-412).  Load l creates session l.  An   *)
(* error is its message ("" is null); modelInfo is the name of the model   *)
(* configuration ("" is null).  createInferenceSession calls               *)
(* onProgress(100) and returns in one turn of the microtask queue with the *)
(* continuation of initializeModel (inference.ts 58-73): one step.         *)
(***************************************************************************)
FailedToLoad == "Failed to load model: Failed to load ONNX model"

\* mutant: isLoading is not set
loadStarted_notLoading(prev, modelConfig) ==
    [prev EXCEPT !.error = "", !.downloadProgress = 0, !.modelInfo = modelConfig]

\* setState at the start of a load (110-116)
loadStarted(prev, modelConfig) ==
    [prev EXCEPT !.isLoading = TRUE, !.error = "", !.downloadProgress = 0,
                 !.modelInfo = modelConfig]

\* the onProgress callback (131-134)
onProgress(prev, progress) == [prev EXCEPT !.downloadProgress = progress]

\* mutant: isLoading is not cleared
loadSucceeded_stillLoading(prev) ==
    [prev EXCEPT !.isModelReady = TRUE, !.downloadProgress = 100]

\* setState after the session is stored (143-148)
loadSucceeded(prev) ==
    [prev EXCEPT !.isLoading = FALSE, !.isModelReady = TRUE, !.downloadProgress = 100]

\* mutant: the catch block forgets isLoading
loadFailed_stillLoading(prev, message) ==
    [prev EXCEPT !.isModelReady = FALSE, !.error = message]

\* setState in the catch block (159-164)
loadFailed(prev, message) ==
    [prev EXCEPT !.isLoading = FALSE, !.isModelReady = FALSE, !.error = message]

\* initializeModel of load l up to its first await (105-136).  supported:
\* getModelConfig finds a model; selects: the provider is awaited from
\* getOptimalProvider (provider unset, autoSelectProvider)
initializeModel(l, supported, selects) ==
    IF ~mountedRef
    THEN /\ loadPc' = [loadPc EXCEPT ![l] = "returned"]
         /\ UNCHANGED <<state, lastCall>>
    ELSE IF ~supported
    THEN /\ loadPc' = [loadPc EXCEPT ![l] = "rejected"]
         /\ UNCHANGED <<state, lastCall>>
    ELSE /\ state' = loadStarted(state, "modelConfig")
         /\ loadPc' = [loadPc EXCEPT ![l] = IF selects THEN "getOptimalProvider"
                                           ELSE "createInferenceSession"]
         /\ lastCall' = "initializeModel"

\* the first render is committed and the effects run (414-429)
Mount ==
    /\ hookPhase = "constructed"
    /\ \E supported \in BOOLEAN, selects \in BOOLEAN : initializeModel(1, supported, selects)
    /\ mountedRef' = TRUE
    /\ hookPhase' = "mounted"
    /\ config' \in Configs
    /\ UNCHANGED <<inferenceSessionRef, disposedSessions>>
    /\ UNCHANGED <<now, predictionInProgressRef, lastPredictionTimeRef, frameCountRef,
                   predictPc, lastExit, lastAccepted, lastInference>>
    /\ UNCHANGED <<pipelineVars, inferenceVars, continuousVars>>

\* modelType, provider, enableDebug, modelUrl or customModel changes: the
\* effect runs initializeModel again (166, 415-417)
ConfigChange ==
    /\ hookPhase = "mounted"
    /\ \E l \in Loads :
          /\ loadPc[l] = "notStarted"
          /\ \A k \in Loads : k < l => loadPc[k] # "notStarted"
          /\ \E supported \in BOOLEAN, selects \in BOOLEAN :
                initializeModel(l, supported, selects)
    /\ UNCHANGED <<inferenceSessionRef, mountedRef, hookPhase, disposedSessions>>
    /\ UNCHANGED <<pipelineVars, inferenceVars, predictVars, continuousVars>>

\* getOptimalProvider resolves (it cannot reject: inference.ts 161-185) and
\* createInferenceSession is called (120-136)
ProviderSelected ==
    /\ \E l \in Loads :
          /\ loadPc[l] = "getOptimalProvider"
          /\ loadPc' = [loadPc EXCEPT ![l] = "createInferenceSession"]
    /\ UNCHANGED <<state, inferenceSessionRef, mountedRef, hookPhase,
                   disposedSessions, lastCall>>
    /\ UNCHANGED <<pipelineVars, inferenceVars, predictVars, continuousVars>>

\* ort.InferenceSession.create resolves: onProgress(100), the session is
\* stored, and the hook is made ready if still mounted (128-148)
SessionCreated ==
    /\ \E l \in Loads :
          /\ loadPc[l] = "createInferenceSession"
          /\ loadPc' = [loadPc EXCEPT ![l] = "loaded"]
          /\ inferenceSessionRef' = l
          /\ state' = IF mountedRef
                      THEN loadSucceeded(onProgress(state, 100))
                      ELSE state
    /\ UNCHANGED <<mountedRef, hookPhase, disposedSessions, lastCall>>
    /\ UNCHANGED <<pipelineVars, inferenceVars, predictVars, continuousVars>>

\* ort.InferenceSession.create rejects: createInferenceSession rethrows
\* (inference.ts 74-77) and the catch block runs (153-165)
SessionFails ==
    /\ \E l \in Loads :
          /\ loadPc[l] = "createInferenceSession"
          /\ loadPc' = [loadPc EXCEPT ![l] = "failed"]
          /\ state' = IF mountedRef THEN loadFailed(state, FailedToLoad) ELSE state
    /\ UNCHANGED <<inferenceSessionRef, mountedRef, hookPhase, disposedSessions,
                   lastCall>>
    /\ UNCHANGED <<pipelineVars, inferenceVars, predictVars, continuousVars>>

\* reset() (387-412)
yoloReset ==
    /\ hookPhase = "mounted"
    /\ disposedSessions' = IF inferenceSessionRef # NoSession
                           THEN disposedSessions \cup {inferenceSessionRef}
                           ELSE disposedSessions
    /\ inferenceSessionRef' = NoSession
    /\ state' = InitialState
    /\ lastCall' = "reset"
    /\ predictionInProgressRef' = FALSE
    /\ lastPredictionTimeRef' = 0
    /\ frameCountRef' = 0
    /\ UNCHANGED <<mountedRef, hookPhase, loadPc>>
    /\ lastAccepted' = [lastAccepted EXCEPT !.reset = TRUE]
    /\ lastInference' = [lastInference EXCEPT !.reset = TRUE]
    /\ UNCHANGED <<config, now, predictPc, lastExit>>
    /\ UNCHANGED <<pipelineVars, inferenceVars>>

\* reset() of useYolo is called
Reset == yoloReset /\ UNCHANGED continuousVars

\* the cleanup of the unmount effect (423-428)
yoloUnmount ==
    /\ hookPhase = "mounted"
    /\ hookPhase' = "unmounted"
    /\ mountedRef' = FALSE
    /\ disposedSessions' = IF inferenceSessionRef # NoSession
                           THEN disposedSessions \cup {inferenceSessionRef}
                           ELSE disposedSessions
    /\ UNCHANGED <<state, inferenceSessionRef, loadPc, lastCall>>
    /\ UNCHANGED <<pipelineVars, inferenceVars, predictVars>>

\* a component using useYolo is unmounted
Unmount == yoloUnmount /\ UNCHANGED continuousVars

NextHook ==
    \/ Mount
    \/ ConfigChange
    \/ ProviderSelected
    \/ SessionCreated
    \/ SessionFails
    \/ Reset
    \/ Unmount

\* a pending promise settles and its continuation runs: getOptimalProvider
\* resolves, InferenceSession.create resolves or rejects; the first render is
\* committed
SpecHook ==
    /\ Init
    /\ [][NextHook]_vars
    /\ WF_vars(Mount)
    /\ WF_vars(ProviderSelected)
    /\ WF_vars(SessionCreated \/ SessionFails)

(***************************************************************************)
(* useYolo.predict (hooks/index.ts 169-385).  A call runs from its start   *)
(* to its first await in one step; its continuation runs when runInference *)
(* settles.  lastExit names the way the call left predict, until the       *)
(* caller has taken the settled promise.                                   *)
(***************************************************************************)
\* the exits of predict that resolve to the skip result (180-186, 194-200,
\* 209-215), and those that reject
SkipExits == {"fpsLimited", "frameSkipped", "inProgress"}
ThrowExits ==
    {"notInitialized", "notReady", "noConfiguration", "preprocessFailed", "failed"}

\* mutant: the catch block leaves the flag set
predictFailed_flagKept(inProgress) == inProgress

\* the flag after the catch block (377-379)
predictFailed(inProgress) == FALSE

\* mutant: the in-progress check is missing
alreadyInProgress_never(inProgress) == FALSE

\* the in-progress check (205)
alreadyInProgress(inProgress) == inProgress

\* mutant: the FPS check is missing
fpsLimited_never(maxFPS, currentTime, lastPredictionTime) == FALSE

\* the FPS check (175-179)
fpsLimited(maxFPS, currentTime, lastPredictionTime) ==
    /\ maxFPS > 0
    /\ (currentTime - lastPredictionTime) * maxFPS < 1000

\* predict from its start to its first await or its exit (169-261).  inputOk:
\* toImageData and preprocessImage return
predict(currentTime, inputOk) ==
    LET unchanged == [exit |-> "none", accepted |-> FALSE,
                      frameCount |-> frameCountRef,
                      lastPredictionTime |-> lastPredictionTimeRef,
                      predictionInProgress |-> predictionInProgressRef]
        counted == IF config.skipFrames > 0
                   THEN [unchanged EXCEPT !.frameCount = frameCountRef + 1]
                   ELSE unchanged
        accepted == [counted EXCEPT !.accepted = TRUE,
                                    !.lastPredictionTime = currentTime]
    IN  IF fpsLimited(config.maxFPS, currentTime, lastPredictionTimeRef)
        THEN [unchanged EXCEPT !.exit = "fpsLimited"]
        ELSE IF /\ config.skipFrames > 0
                /\ counted.frameCount % (config.skipFrames + 1) # 0
        THEN [counted EXCEPT !.exit = "frameSkipped"]
        ELSE IF alreadyInProgress(predictionInProgressRef)
        THEN [counted EXCEPT !.exit = "inProgress"]
        ELSE IF inferenceSessionRef = NoSession
        THEN [accepted EXCEPT !.exit = "notInitialized"]
        ELSE IF ~state.isModelReady
        THEN [accepted EXCEPT !.exit = "notReady"]
        ELSE IF state.modelInfo = ""
        THEN [accepted EXCEPT !.exit = "noConfiguration",
                              !.predictionInProgress = FALSE]
        ELSE IF ~inputOk
        THEN [accepted EXCEPT !.exit = "preprocessFailed",
                              !.predictionInProgress = predictFailed(TRUE)]
        ELSE [accepted EXCEPT !.exit = "runInference",
                              !.predictionInProgress = TRUE]

\* predict(input) is called on the mounted hook
yoloPredict ==
    /\ hookPhase = "mounted"
    /\ lastExit = NoExit
    /\ frameCountRef < MaxFrames
    /\ \E p \in Predicts, inputOk \in BOOLEAN :
          /\ predictPc[p] = "idle"
          /\ \A q \in Predicts : q < p => predictPc[q] # "idle"
          /\ LET r == predict(now, inputOk)
             IN  /\ frameCountRef' = r.frameCount
                 /\ lastPredictionTimeRef' = r.lastPredictionTime
                 /\ predictionInProgressRef' = r.predictionInProgress
                 /\ predictPc' = IF r.exit = "runInference"
                                 THEN [predictPc EXCEPT ![p] = "runInference"]
                                 ELSE predictPc
                 /\ lastExit' = [call |-> p, exit |-> r.exit]
                 /\ lastAccepted' = IF r.accepted
                                    THEN [time |-> now, reset |-> FALSE]
                                    ELSE lastAccepted
                 /\ lastInference' = IF r.exit = "runInference"
                                     THEN [time |-> now, reset |-> FALSE]
                                     ELSE lastInference
    /\ UNCHANGED <<config, now>>
    /\ UNCHANGED <<pipelineVars, inferenceVars, hookVars>>

\* the caller of useYolo calls predict
PredictCall == yoloPredict /\ UNCHANGED continuousVars

\* runInference resolves and post-processing returns (261-375)
PredictReturns ==
    /\ lastExit = NoExit
    /\ \E p \in Predicts :
          /\ predictPc[p] = "runInference"
          /\ predictPc' = [predictPc EXCEPT ![p] = "idle"]
          /\ lastExit' = [call |-> p, exit |-> "returned"]
    /\ predictionInProgressRef' = FALSE
    /\ UNCHANGED <<config, now, lastPredictionTimeRef, frameCountRef, lastAccepted,
                   lastInference>>
    /\ UNCHANGED <<pipelineVars, inferenceVars, hookVars, continuousVars>>

\* runInference rejects, or the output is invalid, or the model type is none
\* of the three: the catch block runs (376-384)
PredictFails ==
    /\ lastExit = NoExit
    /\ \E p \in Predicts :
          /\ predictPc[p] = "runInference"
          /\ predictPc' = [predictPc EXCEPT ![p] = "idle"]
          /\ lastExit' = [call |-> p, exit |-> "failed"]
    /\ predictionInProgressRef' = predictFailed(predictionInProgressRef)
    /\ UNCHANGED <<config, now, lastPredictionTimeRef, frameCountRef, lastAccepted,
                   lastInference>>
    /\ UNCHANGED <<pipelineVars, inferenceVars, hookVars, continuousVars>>

\* the caller takes the settled promise
PredictSettled ==
    /\ lastExit # NoExit
    /\ lastExit' = NoExit
    /\ UNCHANGED <<config, now, predictionInProgressRef, lastPredictionTimeRef,
                   frameCountRef, predictPc, lastAccepted, lastInference>>
    /\ UNCHANGED <<pipelineVars, inferenceVars, hookVars, continuousVars>>

\* performance.now() advances
Tick ==
    /\ now < MaxTime
    /\ lastExit = NoExit
    /\ now' = now + 1
    /\ UNCHANGED <<config, predictionInProgressRef, lastPredictionTimeRef,
                   frameCountRef, predictPc, lastExit, lastAccepted, lastInference>>
    /\ UNCHANGED <<pipelineVars, inferenceVars, hookVars, continuousVars>>

(***************************************************************************)
(* The task hooks: detect, segment and detectPoses await predict and take  *)
(* their list from its result.  The repository holds each wrapper with and *)
(* without the check of result.skipped.  A wrapper keeps no state: what it *)
(* returns is a function of what predict settled with.                     *)
(***************************************************************************)
\* what predict settles with after leaving by exit e, under a wrapper that
\* fixes the model type to the one of `list`: the skip result (180-186), the
\* final result with its list (283-359), or an error
predictOutcome(e, list) ==
    IF e \in SkipExits
    THEN [skipped |-> TRUE, lists |-> {}, thrown |-> None]
    ELSE IF e = "returned"
    THEN [skipped |-> FALSE, lists |-> {list}, thrown |-> None]
    ELSE [skipped |-> FALSE, lists |-> {}, thrown |-> <<e>>]

NoListReturned(list) == "No " \o list \o " returned from model"

\* the wrapper without the skipped check (hooks/useYoloDetection.ts 35-45,
\* hooks/useYoloPose.ts 31-41); "list" stands for the list of the result
extractList(result, list) ==
    IF result.thrown # None
    THEN [returns |-> "nothing", thrown |-> result.thrown]
    ELSE IF list \notin result.lists
    THEN [returns |-> "nothing", thrown |-> <<NoListReturned(list)>>]
    ELSE [returns |-> "list", thrown |-> None]

\* the wrapper with the skipped check (part_005 40-55, part_006 40-55,
\* part_008 40-55)
extractListOrEmpty(result, list) ==
    IF result.thrown # None
    THEN [returns |-> "nothing", thrown |-> result.thrown]
    ELSE IF result.skipped
    THEN [returns |-> "empty", thrown |-> None]
    ELSE extractList(result, list)

\* the wrappers in the repository
TaskHooks ==
    {[file |-> "hooks/useYoloDetection.ts", list |-> "detections", checksSkipped |-> FALSE],
     [file |-> "hooks/useYoloPose.ts", list |-> "poses", checksSkipped |-> FALSE],
     [file |-> "part_007", list |-> "segmentations", checksSkipped |-> FALSE],
     [file |-> "part_005", list |-> "detections", checksSkipped |-> TRUE],
     [file |-> "part_006", list |-> "segmentations", checksSkipped |-> TRUE],
     [file |-> "part_008", list |-> "poses", checksSkipped |-> TRUE]}
\* what the wrapper h settles with when its predict call left by exit e
taskOutcome(h, e) ==
    IF h.checksSkipped
    THEN extractListOrEmpty(predictOutcome(e, h.list), h.list)
    ELSE extractList(predictOutcome(e, h.list), h.list)

\* the hook in use: it is mounted, it loads and reloads its model, and
\* predict is called in between; predict is not called on an unmounted hook
NextUse ==
    \/ Mount
    \/ ConfigChange
    \/ ProviderSelected
    \/ SessionCreated
    \/ SessionFails
    \/ Reset
    \/ PredictCall
    \/ PredictReturns
    \/ PredictFails
    \/ PredictSettled
    \/ Tick

SpecUse == Init /\ [][NextUse]_vars

(***************************************************************************)
(* useYoloContinuous (types/index.ts 151-287).  startProcessing requests   *)
(* an animation frame for processVideoFrame, which hands the video to      *)
(* predict through processFrame and requests the next frame.  The browser  *)
(* keeps the requested frames in animationFrames and runs each once.       *)
(* canvasRef is written and never read; it is left out.                    *)
(***************************************************************************)
\* useYolo({ ...yoloConfig, maxFPS: targetFPS }) (159-163): the maxFPS that
\* useYolo sees is targetFPS
targetFPS == config.maxFPS

ModelNotReady == "Model not ready. Please wait for model to load."

\* processVideoFrame and startProcessing are made by one render (229, 251),
\* and processVideoFrame requests itself: the loop reads the isModelReady
\* that startProcessing has read, which let it start
closureModelReady == TRUE

\* mutant: the interval check is missing
frameTooSoon_never(fps, currentTime, lastProcessTime) == FALSE

\* the interval check of the loop (200-203); 1000 / 0 is Infinity
frameTooSoon(fps, currentTime, lastProcessTime) ==
    IF fps = 0 THEN TRUE ELSE (currentTime - lastProcessTime) * fps < 1000

\* the browser drops the callback of the handle
cancelAnimationFrame(frames, handle) == frames \ {handle}

\* the browser gives the next handle and keeps the callback
requestAnimationFrame(frames) ==
    /\ lastHandle < MaxHandles
    /\ lastHandle' = lastHandle + 1
    /\ animationFrames' = frames \cup {lastHandle + 1}
    /\ animationFrameRef' = lastHandle + 1

\* stopProcessing (253-264)
stopProcessing ==
    /\ processingRef' = FALSE
    /\ animationFrames' = IF animationFrameRef # NoFrame
                          THEN cancelAnimationFrame(animationFrames, animationFrameRef)
                          ELSE animationFrames
    /\ animationFrameRef' = NoFrame
    /\ videoRef' = FALSE
    /\ UNCHANGED <<lastProcessTimeRef, lastHandle, startThrown, lastSubmit>>

\* startProcessing(video, canvas) is called (231-251)
StartProcessing ==
    /\ hookPhase = "mounted"
    /\ IF ~state.isModelReady
       THEN /\ startThrown' = <<ModelNotReady>>
            /\ UNCHANGED <<processingRef, animationFrameRef, videoRef,
                           lastProcessTimeRef, animationFrames, lastHandle,
                           lastSubmit>>
       ELSE /\ requestAnimationFrame(
                   IF processingRef /\ animationFrameRef # NoFrame
                   THEN cancelAnimationFrame(animationFrames, animationFrameRef)
                   ELSE animationFrames)
            /\ videoRef' = TRUE
            /\ processingRef' = TRUE
            /\ lastProcessTimeRef' = 0
            /\ startThrown' = None
            /\ lastSubmit' = [lastSubmit EXCEPT !.restarted = TRUE]
    /\ UNCHANGED <<pipelineVars, inferenceVars, hookVars, predictVars>>

\* stopProcessing() is called
StopProcessing ==
    /\ hookPhase = "mounted"
    /\ stopProcessing
    /\ UNCHANGED <<pipelineVars, inferenceVars, hookVars, predictVars>>

\* the browser runs a requested frame: processVideoFrame (192-229), with
\* processFrame (171-189) up to the first await of predict.  videoReady: the
\* video has data, is not paused and has not ended
ProcessVideoFrame ==
    \E f \in animationFrames, videoReady \in BOOLEAN :
        LET frames == animationFrames \ {f}
        IN  IF ~processingRef \/ ~videoRef \/ ~closureModelReady
            THEN /\ animationFrames' = frames
                 /\ UNCHANGED <<processingRef, animationFrameRef, videoRef,
                                lastProcessTimeRef, lastHandle, startThrown,
                                lastSubmit>>
                 /\ UNCHANGED <<pipelineVars, inferenceVars, hookVars, predictVars>>
            ELSE IF \/ frameTooSoon(targetFPS, now, lastProcessTimeRef)
                    \/ ~videoReady
            THEN /\ requestAnimationFrame(frames)
                 /\ UNCHANGED <<processingRef, videoRef, lastProcessTimeRef,
                                startThrown, lastSubmit>>
                 /\ UNCHANGED <<pipelineVars, inferenceVars, hookVars, predictVars>>
            ELSE /\ lastProcessTimeRef' = now
                 /\ yoloPredict
                 /\ lastSubmit' = [time |-> now, previous |-> lastSubmit.time,
                                   restarted |-> FALSE,
                                   between |-> lastSubmit.restarted]
                 /\ requestAnimationFrame(frames)
                 /\ UNCHANGED <<processingRef, videoRef, startThrown>>

\* reset() of useYoloContinuous (274-277)
ContinuousReset ==
    /\ stopProcessing
    /\ yoloReset

\* the cleanups of the unmount effects (267-271 and hooks/index.ts 423-428)
ContinuousUnmount ==
    /\ stopProcessing
    /\ yoloUnmount

\* the continuous hook in use under one configuration: the model is loaded
\* once, by the mount, and the load succeeds or fails
NextContinuous ==
    \/ Mount
    \/ ProviderSelected
    \/ SessionCreated
    \/ SessionFails
    \/ StartProcessing
    \/ StopProcessing
    \/ ProcessVideoFrame
    \/ ContinuousReset
    \/ ContinuousUnmount
    \/ PredictReturns
    \/ PredictFails
    \/ PredictSettled
    \/ Tick

SpecContinuous == Init /\ [][NextContinuous]_vars

(***************************************************************************)
(* Vocabulary of the properties.                                           *)
(***************************************************************************)
Assemblers == {"processDetections", "processSegmentations", "processPoses"}
AssemblerRan == op \in Assemblers
NmsRan == op = "nms" \/ AssemblerRan
Range(seq) == {seq[k] : k \in DOMAIN seq}
boxArea(box) == box[3] * box[4]
\* IoU of two boxes with their areas taken as nms takes them
IoU(box1, box2) == calculateIoU(box1, box2, boxArea(box1), boxArea(box2))
\* the original-image size in the units of the returned boxes
WidthBound == processedImageData.originalWidth * xDen(processedImageData)
HeightBound == processedImageData.originalHeight * yDen(processedImageData)
MinWidth == MinBoxSize * xDen(processedImageData)
MinHeight == MinBoxSize * yDen(processedImageData)
\* the anchor of `output` that result k was built from
AnchorOfResult(k) == At(anchors, selectedIndices[k])
\* the largest value of a set of integers that holds 0
MaxOf(S) == CHOOSE m \in S : \A v \in S : v <= m
\* the confidence the decode loop compares with confidenceThreshold for
\* anchor i: the best class score, or the person confidence for a pose tensor
AnchorConfidence(i) ==
    IF op = "processPoses"
    THEN read(output, 4 * NUM_DETECTIONS + i)
    ELSE MaxOf({0} \cup {read(output, (4 + j) * NUM_DETECTIONS + i) :
                            j \in 0..(NUM_CLASSES - 1)})
\* the box channels <<cx, cy, w, h>> of anchor i
AnchorBox(i) == [ch \in 1..4 |-> read(output, (ch - 1) * NUM_DETECTIONS + i)]
AnchorMapped(i) ==
    convertToImageCoordinates(AnchorBox(i)[1], AnchorBox(i)[2], AnchorBox(i)[3],
                              AnchorBox(i)[4], processedImageData)
AnchorIndices == 0..(NUM_DETECTIONS - 1)
\* the 0-based indices of the candidates handed to nms
CandidateIndices == 0..(Len(boxes) - 1)

(***************************************************************************)
(* C1  Suppression invariant: any two distinct boxes kept by nms, and any  *)
(* two results returned by an assembler, have IoU <= iouThreshold.         *)
(***************************************************************************)
C1_SuppressionInvariant ==
    /\ NmsRan =>
          \A p, q \in DOMAIN selectedIndices :
              p # q => QLe(IoU(At(boxes, selectedIndices[p]),
                               At(boxes, selectedIndices[q])),
                           options.iouThreshold)
    /\ AssemblerRan =>
          \A p, q \in DOMAIN results :
              p # q => QLe(IoU(results[p].bbox, results[q].bbox),
                           options.iouThreshold)

\* nms kept two overlapping boxes (0 < IoU <= threshold) and suppressed a third
C1_Witness ==
    /\ op = "nms"
    /\ Len(selectedIndices) < Len(boxes)
    /\ \E p, q \in DOMAIN selectedIndices :
          /\ p # q
          /\ IoU(At(boxes, selectedIndices[p]), At(boxes, selectedIndices[q])).num > 0

(***************************************************************************)
(* C2  Confidence ordering: the scores of the sequence returned by an      *)
(* assembler are non-increasing, as are the scores of the indices nms      *)
(* returns.                                                                *)
(***************************************************************************)
C2_ConfidenceOrdering ==
    /\ NmsRan =>
          \A p, q \in DOMAIN selectedIndices :
              p < q => At(scores, selectedIndices[p]) >= At(scores, selectedIndices[q])
    /\ AssemblerRan =>
          \A p, q \in DOMAIN results : p < q => results[p].score >= results[q].score

\* two results, the better one decoded from the later anchor
C2_Witness ==
    /\ AssemblerRan
    /\ Len(results) = 2
    /\ results[1].score > results[2].score
    /\ AnchorOfResult(1) > AnchorOfResult(2)

(***************************************************************************)
(* C3  Cap invariant: an assembler returns at most maxDetections results,  *)
(* and they are the first maxDetections indices kept by nms, in order.     *)
(***************************************************************************)
C3_CapInvariant ==
    AssemblerRan =>
        /\ Len(results) <= options.maxDetections
        /\ Len(results) = Min(options.maxDetections, Len(selectedIndices))
        /\ \A k \in DOMAIN results :
              /\ results[k].bbox = At(boxes, selectedIndices[k])
              /\ results[k].score = At(scores, selectedIndices[k])
              /\ op # "processPoses" =>
                    results[k].classIndex = At(classIds, selectedIndices[k])

\* nms kept more indices than maxDetections, so the output was truncated
C3_Witness ==
    /\ AssemblerRan
    /\ Len(selectedIndices) > options.maxDetections
    /\ Len(results) = options.maxDetections

(***************************************************************************)
(* C4  Minimum size invariant: every result has bbox width >= 20 and       *)
(* height >= 20 original-image pixels; for an image smaller than 20 pixels *)
(* on a side the output is empty.                                          *)
(***************************************************************************)
C4_MinimumSize ==
    AssemblerRan =>
        /\ \A k \in DOMAIN results :
              results[k].bbox[3] >= MinWidth /\ results[k].bbox[4] >= MinHeight
        /\ (\/ processedImageData.originalWidth < MinBoxSize
            \/ processedImageData.originalHeight < MinBoxSize) => results = <<>>

\* a confident anchor with a valid box was dropped for its mapped size while
\* another anchor was returned
C4_Witness ==
    /\ AssemblerRan
    /\ results # <<>>
    /\ \E i \in AnchorIndices :
          /\ AnchorConfidence(i) >= options.confidenceThreshold
          /\ AnchorBox(i)[3] > 0 /\ AnchorBox(i)[4] > 0
          /\ AnchorMapped(i)[3] < MinWidth
          /\ i \notin Range(anchors)

(***************************************************************************)
(* C5  nms drops a candidate only because of a better overlapping one: an  *)
(* index absent from the output has IoU > iouThreshold with some kept      *)
(* index of greater-or-equal score.  Hence candidates that do not overlap  *)
(* one another are all kept, and of two near-identical boxes scored 0.9    *)
(* and 0.8 with iouThreshold 0.4 only the 0.9 box is kept.                 *)
(***************************************************************************)
C5_DroppedOnlyForBetterOverlap ==
    NmsRan =>
        /\ Range(selectedIndices) \subseteq CandidateIndices
        /\ \A i \in CandidateIndices \ Range(selectedIndices) :
              \E k \in Range(selectedIndices) :
                  /\ At(scores, k) >= At(scores, i)
                  /\ QGt(IoU(At(boxes, k), At(boxes, i)), options.iouThreshold)
        /\ (\A i, j \in CandidateIndices :
               i # j => IoU(At(boxes, i), At(boxes, j)).num = 0)
              => Range(selectedIndices) = CandidateIndices
        /\ \A i, j \in CandidateIndices :
              (/\ Len(boxes) = 2
               /\ QGt(IoU(At(boxes, i), At(boxes, j)), Quot(9, 10))
               /\ At(scores, i) = 9 /\ At(scores, j) = 8
               /\ options.iouThreshold = Quot(4, 10))
              => selectedIndices = <<i>>

\* the duplicate-box scenario with the 0.9 box second in the input: boxes with
\* IoU 98/102, scores 0.8 and 0.9, iouThreshold 0.4, and index 1 alone is kept
C5_Witness ==
    /\ op = "nms"
    /\ Len(boxes) = 2
    /\ QGt(IoU(boxes[1], boxes[2]), Quot(9, 10))
    /\ boxes[1] # boxes[2]
    /\ scores = <<8, 9>>
    /\ options.iouThreshold = Quot(4, 10)
    /\ selectedIndices = <<1>>

OnlyScore(a) ==
    /\ read(output, 4 * NUM_DETECTIONS + a) = 9
    /\ \A i \in AnchorIndices, j \in 0..(NUM_CLASSES - 1) :
          (i # a \/ j # 0) => read(output, (4 + j) * NUM_DETECTIONS + i) = 0
\* every box channel of every anchor other than a is 0
OtherBoxesZero(a) ==
    \A i \in AnchorIndices \ {a} : AnchorBox(i) = <<0, 0, 0, 0>>
OneDetection ==
    /\ Len(results) = 1
    /\ results[1].classIndex = 0
    /\ results[1].score = 9

\* C7 as stated: a tensor in which exactly one anchor has score 0.9 for class
\* 0 and every other value is 0, with confidenceThreshold 0.5, yields exactly
\* one Detection, with classIndex 0 and score 0.9.
C7_Original ==
    (/\ op = "processDetections"
     /\ options.confidenceThreshold = 5
     /\ \E a \in AnchorIndices :
           OnlyScore(a) /\ OtherBoxesZero(a) /\ AnchorBox(a) = <<0, 0, 0, 0>>)
    => OneDetection

\* C7 amended: if exactly one anchor has score 0.9 for class 0 and a box of
\* positive width and height that maps to at least 20 x 20 original-image
\* pixels, and every other value of the tensor is 0, then with
\* confidenceThreshold 0.5 processDetections returns exactly one Detection,
\* with classIndex 0, score 0.9 and that anchor's mapped box.
C7_SingleDetection ==
    \A a \in AnchorIndices :
        (/\ op = "processDetections"
         /\ options.confidenceThreshold = 5
         /\ OnlyScore(a) /\ OtherBoxesZero(a)
         /\ AnchorBox(a)[3] > 0 /\ AnchorBox(a)[4] > 0
         /\ AnchorMapped(a)[3] >= MinWidth /\ AnchorMapped(a)[4] >= MinHeight)
        => /\ OneDetection
           /\ results[1].bbox = AnchorMapped(a)
           /\ results[1].class = "person"

\* the amended case, met by the last anchor of the tensor
C7_Witness ==
    /\ op = "processDetections"
    /\ options.confidenceThreshold = 5
    /\ OnlyScore(NUM_DETECTIONS - 1) /\ OtherBoxesZero(NUM_DETECTIONS - 1)
    /\ AnchorBox(NUM_DETECTIONS - 1)[3] > 0
    /\ AnchorMapped(NUM_DETECTIONS - 1)[3] >= MinWidth
    /\ OneDetection

(***************************************************************************)
(* C8  IoU bounds.                                                         *)
(***************************************************************************)
InUnitInterval(q) == q.den > 0 /\ 0 <= q.num /\ q.num <= q.den
IsOne(q) == q.den > 0 /\ q.num = q.den
\* the early return: the literal 0, no quotient formed
IsLiteralZero(q) == q = Quot(0, 1)

C9_Clamping ==
    op = "convertToImageCoordinates" =>
        LET pid == args[5]
            maxX == pid.originalWidth * xDen(pid)
            maxY == pid.originalHeight * yDen(pid)
        IN  /\ 0 <= ret[1] /\ ret[1] <= maxX
            /\ 0 <= ret[2] /\ ret[2] <= maxY
            /\ 0 <= ret[1] + ret[3] /\ ret[1] + ret[3] <= maxX
            /\ 0 <= ret[2] + ret[4] /\ ret[2] + ret[4] <= maxY
            /\ ret[3] >= 0 /\ ret[4] >= 0

(***************************************************************************)
(* C10  Geometry regression fixture: scaleCoordinates maps (100, 100, 200, *)
(* 150) under scaleX = scaleY = 0.5, padX = 0, padY = 80, original size    *)
(* 1280 x 720 to (200, 40, 400, 300); in general x' = max(0, (x - padX) /  *)
(* scaleX), y' = max(0, (y - padY) / scaleY), width' = min(originalWidth - *)
(* x', width / scaleX), height' = min(originalHeight - y', height /        *)
(* scaleY).  The returned x', width' are numerators over scaleX.num and    *)
(* y', height' over scaleY.num, so each equation is multiplied through.    *)
(***************************************************************************)
C10_ScaleCoordinates ==
    op = "scaleCoordinates" =>
        LET x == args[1]
            y == args[2]
            width == args[3]
            height == args[4]
            pid == args[5]
            nx == pid.scaleX.num
            dx == pid.scaleX.den
            ny == pid.scaleY.num
            dy == pid.scaleY.den
        IN  /\ (<<x, y, width, height>> = <<100, 100, 200, 150>> /\ pid = FixtureContext)
                  => ret = <<200 * nx, 40 * ny, 400 * nx, 300 * ny>>
            /\ ret[1] = (IF (x - pid.padX) * dx > 0 THEN (x - pid.padX) * dx ELSE 0)
            /\ ret[2] = (IF (y - pid.padY) * dy > 0 THEN (y - pid.padY) * dy ELSE 0)
            /\ ret[3] = (IF pid.originalWidth * nx - ret[1] < width * dx
                         THEN pid.originalWidth * nx - ret[1] ELSE width * dx)
            /\ ret[4] = (IF pid.originalHeight * ny - ret[2] < height * dy
                         THEN pid.originalHeight * ny - ret[2] ELSE height * dy)

\* the fixture call has returned (200, 40, 400, 300)
C10_Witness ==
    /\ op = "scaleCoordinates"
    /\ args = <<100, 100, 200, 150, FixtureContext>>
    /\ ret = <<200, 40, 400, 300>>

(***************************************************************************)
(* C11  The box mapping applied inside the assemblers follows the geometry *)
(* context: every candidate box is the anchor's box with padX, padY        *)
(* subtracted and each axis divided by scaleX, scaleY (for a context of    *)
(* preprocessImage: multiplied by originalDimension / processedDimension,  *)
(* the size the image was resized to), clamped as the mapper clamps.  With *)
(* x and width over xDen and scaleX = num / den, the equation              *)
(*   x = max(0, (cx - w/2 - padX) / scaleX)                                *)
(* is multiplied through by 2 * num * xDen.  (The code divides by 640      *)
(* whatever the context says.)                                             *)
(***************************************************************************)
C11_ContextMapping ==
    AssemblerRan =>
        \A k \in DOMAIN boxes :
            LET pid == processedImageData
                b == AnchorBox(anchors[k])
                sx == pid.scaleX
                sy == pid.scaleY
            IN  /\ boxes[k][1] * 2 * sx.num
                      = xDen(pid) * Max(0, (2 * b[1] - b[3] - 2 * pid.padX) * sx.den)
                /\ boxes[k][2] * 2 * sy.num
                      = yDen(pid) * Max(0, (2 * b[2] - b[4] - 2 * pid.padY) * sy.den)
                /\ (boxes[k][1] + boxes[k][3]) * 2 * sx.num
                      = xDen(pid) * Min(2 * pid.originalWidth * sx.num,
                                        (2 * b[1] + b[3] - 2 * pid.padX) * sx.den)
                /\ (boxes[k][2] + boxes[k][4]) * 2 * sy.num
                      = yDen(pid) * Min(2 * pid.originalHeight * sy.num,
                                        (2 * b[2] + b[4] - 2 * pid.padY) * sy.den)

(***************************************************************************)
(* C12  Malformed tensor leniency: for a tensor shorter than channels x    *)
(* anchors (or not a multiple of the anchor count) every out-of-range read *)
(* of the decode yields 0, and the assembler returns a result sequence     *)
(* without raising: the sequence it returns for the tensor filled up with  *)
(* zeros, in which an anchor whose width lies beyond the end has no part.  *)
(***************************************************************************)
\* channels x anchors of the tensor the assembler that ran expects
FullLength ==
    CASE op = "processDetections" -> (4 + NUM_CLASSES) * NUM_DETECTIONS
      [] op = "processSegmentations" ->
            (4 + NUM_CLASSES + NumMaskCoeffs) * NUM_DETECTIONS
      [] op = "processPoses" -> (5 + 3 * NumKeypoints) * NUM_DETECTIONS
\* `output` filled up with zeros to its full length
ZeroFilled ==
    [idx \in 0..(FullLength - 1) |-> IF idx \in DOMAIN output THEN output[idx] ELSE 0]
\* what the assembler that ran returns for tensor out
ResultsFor(out) ==
    CASE op = "processDetections" -> processDetections(out, processedImageData, options)
      [] op = "processSegmentations" ->
            processSegmentations(out, processedImageData, options)
      [] op = "processPoses" -> processPoses(out, processedImageData, options)

C12_MalformedTensorLeniency ==
    AssemblerRan =>
        /\ \A idx \in (0..(FullLength - 1)) \ DOMAIN output : read(output, idx) = 0
        /\ thrown = None
        /\ DOMAIN results = 1..Len(results)
        /\ results = ResultsFor(ZeroFilled)
        /\ \A i \in AnchorIndices :
              (2 * NUM_DETECTIONS + i) \notin DOMAIN output
                  => /\ i \notin Range(anchors)
                     /\ \A k \in DOMAIN results : AnchorOfResult(k) # i

\* a tensor cut one value after the box channels, and still a result decoded
\* from the anchor whose class score is that value
C12_Witness ==
    /\ AssemblerRan
    /\ TensorLength(output) = 4 * NUM_DETECTIONS + 1
    /\ TensorLength(output) % NUM_DETECTIONS # 0
    /\ TensorLength(output) < FullLength
    /\ Len(results) = 1
    /\ AnchorOfResult(1) = 0
    /\ thrown = None

(***************************************************************************)
(* C13  Configuration errors fail fast: a call with an unsupported         *)
(* modelType or with a non-positive confidenceThreshold or iouThreshold    *)
(* raises an error and returns no result sequence.  (The assemblers read   *)
(* the thresholds without validating them; only the modelType is tested,   *)
(* by predict, after inference.)                                           *)
(***************************************************************************)
SupportedModelTypes == {"detection", "segmentation", "pose"}
BadConfiguration ==
    \/ options.modelType \notin SupportedModelTypes
    \/ options.confidenceThreshold <= 0
    \/ options.iouThreshold.num <= 0

C13_ConfigurationErrorsFailFast ==
    (op \in Assemblers \cup {"predict"} /\ BadConfiguration)
        => /\ thrown # None
           /\ results = <<>>
           /\ ~AssemblerRan

(***************************************************************************)
(* C14  Score range: every Detection, Segmentation and Pose returned by an *)
(* assembler has a score in (0, 1] (in tenths: 0 < score <= 10), for every *)
(* tensor and every confidenceThreshold in [0, 1].  (The assemblers return *)
(* the raw score of the tensor: above 1 if the tensor holds it, 0 under    *)
(* confidenceThreshold 0.)                                                 *)
(***************************************************************************)
C14_ScoreRange ==
    (AssemblerRan /\ options.confidenceThreshold \in 0..10) =>
        \A k \in DOMAIN results : results[k].score > 0 /\ results[k].score <= 10

(***************************************************************************)
(* C15  Mutual exclusion of model execution: whatever the number of        *)
(* concurrent runInference calls and the interleaving of their awaits, at  *)
(* most one session.run is in flight on a session at any time, and a call  *)
(* waits only for a call on its own session: calls on different sessions   *)
(* do not block one another.                                               *)
(***************************************************************************)
\* the calls whose session.run is in flight on session s
InFlight(s) == {c \in Calls : callPc[c] = "run" /\ callSession[c] = s}
\* the calls that have the lock of session s: resumed or about to resume
Holders(s) ==
    {c \in Calls : /\ callSession[c] = s
                   /\ \/ callPc[c] = "run"
                      \/ callPc[c] = "acquire" /\ acquired[c]}
\* the calls waiting in the queue of session s
Waiting(s) == {c \in Calls : callSession[c] = s /\ callPc[c] = "acquire" /\ ~acquired[c]}

C15_MutualExclusion ==
    \A s \in Sessions :
        /\ Cardinality(InFlight(s)) <= 1
        /\ Cardinality(Holders(s)) <= 1
        /\ sessionMutexMap[s].isLocked <=> Holders(s) # {}
        /\ Waiting(s) = Range(sessionMutexMap[s].queue)
        /\ Waiting(s) # {} => Holders(s) # {}

\* a run in flight on each of two sessions while a third call waits for one
C15_Witness ==
    \E s, t \in Sessions :
        /\ s # t
        /\ InFlight(s) # {} /\ InFlight(t) # {}
        /\ Waiting(s) # {}

(***************************************************************************)
(* Vocabulary of the hook properties.                                      *)
(***************************************************************************)
\* the loads awaiting a promise, and the loads that ran to their end
LoadsInFlight == {l \in Loads : loadPc[l] \in {"getOptimalProvider", "createInferenceSession"}}
LoadsCompleted == {l \in Loads : loadPc[l] \in {"loaded", "failed"}}

(***************************************************************************)
(* C16  Initial hook state: once the hook is mounted and before its model  *)
(* load completes (a load is in flight, none has completed and reset has   *)
(* not been called since it started), it reports isLoading = true,         *)
(* isModelReady = false, error = null and downloadProgress = 0.            *)
(***************************************************************************)
C16_InitialHookState ==
    (/\ hookPhase = "mounted"
     /\ LoadsInFlight # {}
     /\ LoadsCompleted = {}
     /\ lastCall = "initializeModel")
    => /\ state.isLoading
       /\ ~state.isModelReady
       /\ state.error = ""
       /\ state.downloadProgress = 0

\* mounted, the first load awaiting createInferenceSession, nothing else done
C16_Witness ==
    /\ hookPhase = "mounted"
    /\ loadPc[1] = "createInferenceSession"
    /\ \A l \in Loads \ {1} : loadPc[l] = "notStarted"
    /\ lastCall = "initializeModel"
    /\ state.isLoading /\ ~state.isModelReady
    /\ state.error = "" /\ state.downloadProgress = 0

(***************************************************************************)
(* C17  Successful load: if inference-session creation succeeds (no load   *)
(* fails) and the hook stays mounted, a load in flight leads to the hook   *)
(* reporting isModelReady = true, isLoading = false, error = null,         *)
(* downloadProgress = 100, with a session stored in inferenceSessionRef.   *)
(***************************************************************************)
ReadyState ==
    /\ state.isModelReady
    /\ ~state.isLoading
    /\ state.error = ""
    /\ state.downloadProgress = 100
    /\ inferenceSessionRef # NoSession

C17_SuccessfulLoad ==
    (hookPhase = "mounted" /\ LoadsInFlight # {})
        ~> (\/ ReadyState
            \/ hookPhase = "unmounted"
            \/ \E l \in Loads : loadPc[l] = "failed")

\* the hook is ready with the session of the load that has just succeeded
C17_Witness ==
    /\ hookPhase = "mounted"
    /\ ReadyState
    /\ \A l \in Loads : loadPc[l] # "failed"
    /\ loadPc[inferenceSessionRef] = "loaded"

(***************************************************************************)
(* C18  Failed load: when inference-session creation fails while the hook  *)
(* is mounted, the step leaves error set to the Error describing the       *)
(* failed model load, isLoading = false and isModelReady = false; the      *)
(* failed load takes no further step, and whenever the hook becomes ready  *)
(* it is by a load whose session creation succeeded.  (Provider selection  *)
(* cannot fail: getOptimalProvider catches every error.)                   *)
(***************************************************************************)
C18_FailedLoad ==
    [][\A l \in Loads :
          /\ (loadPc[l] # "failed" /\ loadPc'[l] = "failed" /\ mountedRef)
                => /\ state'.error = FailedToLoad
                   /\ ~state'.isLoading
                   /\ ~state'.isModelReady
          /\ loadPc[l] = "failed" => loadPc'[l] = "failed"
          /\ (~state.isModelReady /\ state'.isModelReady)
                => \E k \in Loads : /\ loadPc[k] = "createInferenceSession"
                                     /\ loadPc'[k] = "loaded"]_vars

\* a load has failed on the mounted hook, which reports the error
C18_Witness ==
    /\ hookPhase = "mounted"
    /\ \E l \in Loads : loadPc[l] = "failed"
    /\ state.error = FailedToLoad
    /\ ~state.isLoading /\ ~state.isModelReady

(***************************************************************************)
(* C19  Reset: after reset() is called in any state of the hook (ready,    *)
(* failed, or while a model load is in flight) the hook is idle:           *)
(* isModelReady = false, isLoading = false, error = null,                  *)
(* downloadProgress = 0, modelInfo = null, no session stored and the       *)
(* session that was stored disposed; and it stays idle until a new         *)
(* initializeModel starts.  (A load in flight at the time of reset() is    *)
(* not cancelled: its continuation stores its session and sets the state.) *)
(***************************************************************************)
IdleState ==
    /\ state = InitialState
    /\ inferenceSessionRef = NoSession
C19_Reset ==
    /\ []((hookPhase = "mounted" /\ lastCall = "reset") => IdleState)
    /\ [][(inferenceSessionRef # NoSession /\ inferenceSessionRef' = NoSession)
              => inferenceSessionRef \in disposedSessions']_vars

(***************************************************************************)
(* C20  Class tie-breaking.                                                *)
(***************************************************************************)
ClassIndices == 0..(NUM_CLASSES - 1)
\* what class channel j holds for anchor i
ClassScore(i, j) == read(output, (4 + j) * NUM_DETECTIONS + i)
\* the maximum class score of anchor i and the lowest class index holding it
MaxClassScore(i) ==
    CHOOSE m \in {ClassScore(i, j) : j \in ClassIndices} :
        \A j \in ClassIndices : ClassScore(i, j) <= m
FirstMaxClass(i) ==
    CHOOSE j \in ClassIndices :
        /\ ClassScore(i, j) = MaxClassScore(i)
        /\ \A k \in ClassIndices : ClassScore(i, k) = MaxClassScore(i) => j <= k
ClassesScanned == op \in {"processDetections", "processSegmentations"}

KeypointChannel(a, j, ch) == read(output, (5 + j * 3 + ch) * NUM_DETECTIONS + a)
\* a raw keypoint coordinate scaled by originalSize / 640 and limited to the image
ScaledInto(raw, ratio, bound) ==
    IF 2 * raw * ratio.num < 0 THEN 0
    ELSE IF 2 * raw * ratio.num > bound THEN bound
    ELSE 2 * raw * ratio.num

EdgePixels(v, extent, den, size) ==
    {c \in {0, size - 1} \cup {(v \div den) + d : d \in -1..1}
                         \cup {((v + extent) \div den) + d : d \in -1..1} :
        c >= 0 /\ c < size}
\* the pixel of mask m at (col, row), as the fill loop writes it
PixelOf(m, col, row) == maskPixel(m.fill, processedImageData, col, row)
InsideBox(bbox, col, row) ==
    /\ bbox[1] <= col * xDen(processedImageData)
    /\ col * xDen(processedImageData) < bbox[1] + bbox[3]
    /\ bbox[2] <= row * yDen(processedImageData)
    /\ row * yDen(processedImageData) < bbox[2] + bbox[4]

\* C22: the mask has the size of the original image and is filled exactly
\* inside the result's own bbox
C22_PlaceholderMask ==
    op = "processSegmentations" =>
        \A k \in 1..Len(results) :
            LET seg == results[k]
                pid == processedImageData
            IN  /\ seg.mask.width = pid.originalWidth
                /\ seg.mask.height = pid.originalHeight
                /\ \A col \in EdgePixels(seg.bbox[1], seg.bbox[3], xDen(pid),
                                          pid.originalWidth),
                      row \in EdgePixels(seg.bbox[2], seg.bbox[4], yDen(pid),
                                          pid.originalHeight) :
                        PixelOf(seg.mask, col, row) =
                            IF InsideBox(seg.bbox, col, row)
                            THEN <<255, 0, 0, 128>>
                            ELSE <<0, 0, 0, 0>>

\* two segmentations with different boxes are returned; in the mask of one,
\* a pixel is filled while its right neighbour, on the box edge, is transparent
C22_Witness ==
    /\ op = "processSegmentations"
    /\ Len(results) = 2
    /\ results[1].bbox # results[2].bbox
    /\ \E k \in 1..2 :
       \E col \in 0..(processedImageData.originalWidth - 2),
          row \in EdgePixels(results[k].bbox[2], results[k].bbox[4],
                             yDen(processedImageData),
                             processedImageData.originalHeight) :
            /\ col * xDen(processedImageData) = results[k].bbox[1] + results[k].bbox[3] - xDen(processedImageData)
            /\ PixelOf(results[k].mask, col, row) = <<255, 0, 0, 128>>
            /\ PixelOf(results[k].mask, col + 1, row) = <<0, 0, 0, 0>>

(***************************************************************************)
(* C23  One prediction at a time per hook: at most one predict call is     *)
(* between "marked in progress" and its completion; a predict call made    *)
(* while another is in progress resolves to the skip result, without       *)
(* running inference and without throwing.                                 *)
(***************************************************************************)
\* the predict calls between line 230 and their completion
PredictionsInProgress == {p \in Predicts : predictPc[p] = "runInference"}
\* the exits a call takes in its first step
CallExits == SkipExits \cup {"notInitialized", "notReady", "noConfiguration",
                             "preprocessFailed", "runInference"}
\* the last call was made while another call was in progress
MadeDuringAnother ==
    /\ lastExit.exit \in CallExits
    /\ PredictionsInProgress \ {lastExit.call} # {}

\* C23: never two predictions in progress, and a call made during another
\* one is skipped
C23_OnePredictionAtATime ==
    /\ Cardinality(PredictionsInProgress) <= 1
    /\ MadeDuringAnother => lastExit.exit \in SkipExits

(***************************************************************************)
(* C24  Mutex fairness and release: the inference mutex is released after  *)
(* every session.run whether it succeeds or throws; callers waiting on a   *)
(* session's mutex are granted it in the order they requested it; and,     *)
(* provided every session.run settles, no waiting runInference call is     *)
(* blocked forever.                                                        *)
(***************************************************************************)
\* call c entered runInference on session s before call d did
RequestedBefore(s, c, d) ==
    \E i, j \in DOMAIN requests[s] :
        i < j /\ requests[s][i] = c /\ requests[s][j] = d
\* the call that has waited longest for the mutex of session s
FirstWaiting(s) ==
    CHOOSE c \in Waiting(s) : \A d \in Waiting(s) \ {c} : RequestedBefore(s, c, d)
\* call c leaves runInference in this step, after session.run or without it
Leaves(c) == callPc[c] \in {"run", "acquire"} /\ callPc'[c] \in {"returned", "threw"}
\* the step releases the mutex of session s: to the longest waiting call, or
\* it unlocks the mutex if none waits
ReleasedInOrder(s) ==
    IF Waiting(s) = {}
    THEN ~sessionMutexMap'[s].isLocked
    ELSE /\ sessionMutexMap'[s].isLocked
         /\ acquired'[FirstWaiting(s)]
         /\ \A d \in Waiting(s) \ {FirstWaiting(s)} : ~acquired'[d]

\* C24: every exit releases the mutex in request order, and every waiting
\* call is granted the mutex
C24_MutexFairness ==
    /\ [][\A c \in Calls : Leaves(c) => ReleasedInOrder(callSession[c])]_vars
    /\ \A c \in Calls : []<>~(callPc[c] = "acquire" /\ ~acquired[c])

\* a run that threw handed the mutex to the call that had waited longest,
\* while a later call still waits
C24_Witness ==
    \E h, c, d \in Calls :
        /\ callPc[h] = "threw" /\ callSession[h] = callSession[c]
        /\ c \in handedTo /\ callPc[c] = "acquire" /\ acquired[c]
        /\ d \in Waiting(callSession[c])
        /\ RequestedBefore(callSession[c], c, d)

(***************************************************************************)
(* C25  FPS limiting: with maxFPS > 0, a predict call arriving less than   *)
(* 1000/maxFPS ms after the last call that was accepted for prediction     *)
(* resolves to the skip result (skipped, all timings 0) instead of         *)
(* throwing and runs no inference; hence any two predictions that run      *)
(* inference start at least 1000/maxFPS ms apart.                          *)
(***************************************************************************)
\* the skip result (180-186, 194-200, 209-215)
SkipResult ==
    [inferenceTime |-> 0, preprocessTime |-> 0, postprocessTime |-> 0,
     skipped |-> TRUE]
\* what the promise of a call that left predict by exit e resolves to (None:
\* it rejects, or it is still pending)
ResolvedTo(e) == IF e \in SkipExits THEN SkipResult ELSE None
\* predict is called in this step
PredictCalled == lastExit = NoExit /\ lastExit'.exit \in CallExits
\* the call of this step comes less than 1000 / maxFPS ms after the call h
TooSoonAfter(h) ==
    /\ config.maxFPS > 0
    /\ h.time >= 0
    /\ (now - h.time) * config.maxFPS < 1000

\* C25 as stated: reset() calls between the two predict calls included
C25_Original ==
    [][PredictCalled =>
          /\ TooSoonAfter(lastAccepted) => ResolvedTo(lastExit'.exit) = SkipResult
          /\ TooSoonAfter(lastInference) => lastExit'.exit # "runInference"]_vars

\* C25: a call too soon after the last accepted call, with no reset() between
\* the two, resolves to the skip result; two calls that run inference with no
\* reset() between them are at least 1000 / maxFPS ms apart
C25_FpsLimiting ==
    [][PredictCalled =>
          /\ (TooSoonAfter(lastAccepted) /\ ~lastAccepted.reset)
                => ResolvedTo(lastExit'.exit) = SkipResult
          /\ (TooSoonAfter(lastInference) /\ ~lastInference.reset)
                => lastExit'.exit # "runInference"]_vars

\* a call made 1 ms after one that ran inference has just been skipped by the
\* FPS check, although no prediction is in progress any more
C25_Witness ==
    /\ config.maxFPS > 0
    /\ lastExit.exit = "fpsLimited"
    /\ lastInference.time >= 0 /\ ~lastInference.reset
    /\ now = lastInference.time + 1
    /\ PredictionsInProgress = {}

(***************************************************************************)
(* C26  The in-progress flag is never left set: whenever no predict call   *)
(* of the hook is executing, predictionInProgress is false - every exit of *)
(* predict clears it - so a failed prediction never causes later predict   *)
(* calls to be skipped.                                                    *)
(***************************************************************************)
\* C26: the flag is set only while a call is in progress, and a call is
\* skipped as "in progress" only while another call is
C26_FlagNeverLeftSet ==
    /\ predictionInProgressRef => PredictionsInProgress # {}
    /\ lastExit.exit = "inProgress" => PredictionsInProgress \ {lastExit.call} # {}
    /\ (lastExit.exit \in ThrowExits \cup {"returned"} /\ PredictionsInProgress = {})
          => ~predictionInProgressRef

\* the only prediction in progress has just failed after its inference was
\* started, and the flag is clear
C26_Witness ==
    /\ lastExit.exit = "failed"
    /\ lastInference.time >= 0
    /\ PredictionsInProgress = {}
    /\ ~predictionInProgressRef

(***************************************************************************)
(* C27  No session leak: once the hook has been unmounted and every        *)
(* in-flight model load has settled, every inference session the hook      *)
(* created (one created after unmount or after reset(), one replaced by a  *)
(* re-initialization included) has been disposed, and no hook state update *)
(* is applied after unmount.                                               *)
(***************************************************************************)
\* the sessions createInferenceSession returned to the hook: load l creates
\* session l
SessionsCreated == {l \in Loads : loadPc[l] = "loaded"}

\* C27: after unmount and the end of every load, all created sessions are
\* disposed; the state is not updated after unmount
C27_NoSessionLeak ==
    /\ []((hookPhase = "unmounted" /\ LoadsInFlight = {})
            => SessionsCreated \subseteq disposedSessions)
    /\ [][hookPhase = "unmounted" => state' = state]_vars

(***************************************************************************)
(* C28  Loading and ready are exclusive: in every reachable state of the   *)
(* hook (mount, load success, load failure, re-initialization after a      *)
(* config change, reset), isLoading and isModelReady are never both true.  *)
(***************************************************************************)
\* C28: the hook never reports loading and ready at once
C28_LoadingReadyExclusive == ~(state.isLoading /\ state.isModelReady)

(***************************************************************************)
(* C29  Skipped frames are handled gracefully by the task hooks: whenever  *)
(* predict resolves to a skipped result (FPS-limited, frame-skipped, or    *)
(* another prediction in progress), detect / segment / detectPoses resolve *)
(* to an empty list and do not throw; they throw "No ... returned from     *)
(* model" only for a non-skipped result that lacks the task's result list. *)
(***************************************************************************)
\* C29: every task hook turns a skipped result into an empty list
C29_SkippedFramesGraceful ==
    \A h \in TaskHooks :
        LET settled == taskOutcome(h, lastExit.exit)
        IN  /\ lastExit.exit \in SkipExits
                => settled = [returns |-> "empty", thrown |-> None]
            /\ settled.thrown = <<NoListReturned(h.list)>>
                => lastExit.exit \notin SkipExits

(***************************************************************************)
(* C30  Continuous processing start/stop: startProcessing throws when the  *)
(* model is not ready and otherwise starts exactly one frame loop          *)
(* (stopping a running one first); after stopProcessing() is called the    *)
(* pending animation frame is cancelled and the loop submits no further    *)
(* frame to predict until startProcessing is called again; while running,  *)
(* two submitted frames are at least 1000/targetFPS ms apart.              *)
(***************************************************************************)
\* the loop hands a frame to predict in this step
FrameSubmitted == lastSubmit' # lastSubmit /\ ~lastSubmit'.restarted

\* startProcessing throws when the model is not ready and changes nothing;
\* otherwise it returns with one frame requested
StartThrowsOrStarts ==
    StartProcessing =>
        IF ~state.isModelReady
        THEN /\ startThrown' = <<ModelNotReady>>
             /\ UNCHANGED <<processingRef, animationFrames, animationFrameRef>>
        ELSE /\ startThrown' = None
             /\ processingRef'
             /\ animationFrames' = {animationFrameRef'}
             /\ animationFrameRef' \notin animationFrames

\* a started loop has one frame pending, a stopped loop has none
OneFrameLoop ==
    IF processingRef
    THEN animationFrames = {animationFrameRef} /\ videoRef
    ELSE animationFrames = {}

\* stopProcessing() stops the loop, and only a running loop submits a frame:
\* processingRef is false from stopProcessing() to the next startProcessing
StoppedLoopSubmitsNothing ==
    /\ StopProcessing => ~processingRef' /\ animationFrames' = {}
    /\ FrameSubmitted => processingRef /\ lastExit'.exit \in CallExits

\* C30 as stated: any two frames submitted one after the other are at least
\* 1000 / targetFPS ms apart
C30_Original ==
    /\ [][StartThrowsOrStarts /\ StoppedLoopSubmitsNothing]_vars
    /\ [](OneFrameLoop /\ (lastSubmit.previous # -1
                              => (lastSubmit.time - lastSubmit.previous) * targetFPS >= 1000))

\* C30: startProcessing throws or starts one loop, a stopped loop submits
\* nothing, and two frames submitted by one loop, with no startProcessing
\* between them, are at least 1000 / targetFPS ms apart
C30_ContinuousStartStop ==
    /\ [][StartThrowsOrStarts /\ StoppedLoopSubmitsNothing]_vars
    /\ [](OneFrameLoop /\ (lastSubmit.previous # -1 /\ ~lastSubmit.between
                              => (lastSubmit.time - lastSubmit.previous) * targetFPS >= 1000))

\* a loop has submitted two frames and has then been stopped
C30_Witness ==
    /\ lastSubmit.previous # -1 /\ ~lastSubmit.between /\ ~lastSubmit.restarted
    /\ ~processingRef
    /\ hookPhase = "mounted"

====
